---- MODULE Spec2Model ----
(***************************************************************************)
(* Per-call media-stream orchestrator of the restaurant voice agent        *)
(* (src/unnamed/part_000, lines 1-2020: the revision with the turn queue,  *)
(* the first-turn coalescer and the handoff state machine).                *)
(*                                                                         *)
(* One websocket connection = one call.  The closure variables of the      *)
(* /media-stream handler are the state; every `await` on an external       *)
(* service (speech synthesis, language model, datastore, telephony) is a   *)
(* suspension point, modelled as a task record waiting at a pc.  Between   *)
(* two suspension points the JavaScript runs to completion, so each action *)
(* below is one such run.                                                  *)
(***************************************************************************)
EXTENDS Integers, Sequences, FiniteSets, TLC

(***************************************************************************)
(* Bounds of the model (not program constants).                            *)
(***************************************************************************)
\* final transcripts delivered in one call (Spec, SpecHandoff, SpecTarget)
MaxTranscripts == 3
\* final transcripts delivered in one call (SpecQueue): one first turn, three
\* queued turns and one more that finds the queue full
MaxQueueTranscripts == 5
\* final transcripts delivered in one call (SpecCoalesce)
MaxFragments == 3
\* language-model replies with tool calls accepted within one turn
MaxLlmCalls == 3
\* clock step while the first-turn timer is pending
TickMs == 900
\* media frames that arrive in one call (SpecBridge)
MaxFrames == 3
\* final transcripts delivered in one call (SpecAgent, SpecForced)
MaxAgentTranscripts == 2
\* calls of the month counted in the datastore (SpecAccess)
MaxCalls == 2
\* final transcripts delivered in one call (SpecHistory)
MaxHistoryTranscripts == 2
\* messages after the system message in a history given to trimMessagesForLLM (SpecTrim)
MaxTrimmedHistory == 5
\* largest value of MAX_LLM_HISTORY_MESSAGES and MAX_TOOL_HISTORY_MESSAGES (SpecTrim)
MaxHistoryLimit == 3
\* confirmed reservations of the requested date (SpecAvailability)
MaxReservations == 3
\* entries of the closed_days setting (SpecClosedDays)
MaxClosedDayTokens == 3
\* characters of a tenant id (SpecRollout)
MaxPracticeIdLen == 2
\* calls of one tenant at the same time, and reservations of the day (SpecBooking)
MaxConcurrentCalls == 2
MaxBookedRows == 3
\* final transcripts delivered in one call (SpecTranscript)
MaxRecordedTranscripts == 1

(***************************************************************************)
(* Program constants.                                                      *)
(***************************************************************************)
TURN_QUEUE_MAX_SIZE == 3
INITIAL_TURN_COALESCE_MS == 900
INITIAL_TURN_FIRST_CHUNK_WAIT_MS == 1800
INITIAL_TURN_MAX_WAIT_MS == 2600
HANDOFF_THRESHOLD_MISUNDERSTANDINGS == 3
MIN_PHONE_DIGITS == 6
DG_ENDPOINTING_MS_LEGACY == 950
DG_UTTERANCE_END_MS_LEGACY == 1000
DG_ENDPOINTING_MS == 550
DG_UTTERANCE_END_MS == 1000
TRANSCRIPT_QUEUE_RETRIES == 2
RESERVATION_DURATION_MINUTES == 60
NOTIFICATION_RETRY_DELAYS_MS == <<500, 1000, 2000, 4000, 8000>>

Min(a, b) == IF a <= b THEN a ELSE b
Max(a, b) == IF a >= b THEN a ELSE b

Null == <<>>

(***************************************************************************)
(* Texts.  A text is a sequence of tokens: words and single blanks " ".    *)
(* A finalized fragment is trimmed by the Transcript handler (text.trim()) *)
(* so it neither starts nor ends with a blank, but may hold inner runs.    *)
(***************************************************************************)
SP == " "

RECURSIVE JoinParts(_)
\* parts.join(" ")
JoinParts(parts) ==
    IF Len(parts) = 0 THEN <<>>
    ELSE IF Len(parts) = 1 THEN parts[1]
    ELSE parts[1] \o <<SP>> \o JoinParts(Tail(parts))

RECURSIVE CollapseBlanks(_)
\* .replace(/\s+/g, " ")
CollapseBlanks(t) ==
    IF Len(t) <= 1 THEN t
    ELSE IF t[1] = SP /\ t[2] = SP THEN CollapseBlanks(Tail(t))
    ELSE <<t[1]>> \o CollapseBlanks(Tail(t))

RECURSIVE TrimLeft(_)
TrimLeft(t) == IF Len(t) > 0 /\ t[1] = SP THEN TrimLeft(Tail(t)) ELSE t

RECURSIVE TrimRight(_)
TrimRight(t) ==
    IF Len(t) > 0 /\ t[Len(t)] = SP THEN TrimRight(SubSeq(t, 1, Len(t) - 1)) ELSE t

\* .trim()
Trim(t) == TrimRight(TrimLeft(t))

\* firstTurnBuffer.parts.join(" ").replace(/\s+/g, " ").trim()
MergeParts(parts) == Trim(CollapseBlanks(JoinParts(parts)))

HasWord(t, S) == \E i \in 1..Len(t) : t[i] \in S

RECURSIVE Flatten(_)
Flatten(parts) == IF Len(parts) = 0 THEN <<>> ELSE parts[1] \o Flatten(Tail(parts))

RECURSIVE KeepWords(_)
KeepWords(t) ==
    IF Len(t) = 0 THEN <<>>
    ELSE IF t[1] = SP THEN KeepWords(Tail(t)) ELSE <<t[1]>> \o KeepWords(Tail(t))

RECURSIVE SpaceOut(_)
SpaceOut(ws) ==
    IF Len(ws) <= 1 THEN ws ELSE <<ws[1], SP>> \o SpaceOut(Tail(ws))

\* reference: the words of the fragments in arrival order, one blank between two
NormalizedJoin(parts) == SpaceOut(KeepWords(Flatten(parts)))

AffirmativeWords == {"ja", "weiterleiten"}
NegativeWords == {"nein"}
ExplicitHandoffWords == {"mitarbeiter", "weiterleiten"}
QuickFillerWords == {"tisch", "morgen", "uhr"}

isAffirmativeResponse(t) == HasWord(t, AffirmativeWords)
isNegativeResponse(t) == HasWord(t, NegativeWords)
isExplicitHandoffRequest(t) == HasWord(t, ExplicitHandoffWords)

(***************************************************************************)
(* Phone numbers.  A raw number is a sequence of characters; "tel:" is one *)
(* token, "x" stands for any other non-digit character.                    *)
(***************************************************************************)
Digits == {"1", "2", "4", "9"}
Separators == {" ", "(", ")", ".", "-"}

RECURSIVE DropAll(_, _)
DropAll(s, S) ==
    IF Len(s) = 0 THEN <<>>
    ELSE IF s[1] \in S THEN DropAll(Tail(s), S)
    ELSE <<s[1]>> \o DropAll(Tail(s), S)

RECURSIVE KeepAll(_, _)
KeepAll(s, S) ==
    IF Len(s) = 0 THEN <<>>
    ELSE IF s[1] \in S THEN <<s[1]>> \o KeepAll(Tail(s), S)
    ELSE KeepAll(Tail(s), S)

\* normalizePhoneNumber, .replace(/^tel:/i, "") on the trimmed value
stripTelPrefix(trimmed) ==
    IF Len(trimmed) > 0 /\ trimmed[1] = "tel:" THEN Tail(trimmed) ELSE trimmed

\* normalizePhoneNumber, the leading plus is kept and every other plus removed
keepLeadingPlus(compact) ==
    IF compact[1] = "+"
    THEN <<"+">> \o DropAll(Tail(compact), {"+"})
    ELSE DropAll(compact, {"+"})

\* normalizePhoneNumber, the digit count of the normalized value decides
requireMinDigits(normalized) ==
    IF Len(KeepAll(normalized, Digits)) < MIN_PHONE_DIGITS THEN Null ELSE normalized

\* normalizePhoneNumber from the compact value on
normalizeCompact(compact) ==
    IF Len(compact) = 0 THEN Null ELSE requireMinDigits(keepLeadingPlus(compact))

\* normalizePhoneNumber: Null stands for JavaScript null
normalizePhoneNumber(value) ==
    IF Len(value) = 0 THEN Null
    ELSE normalizeCompact(DropAll(stripTelPrefix(Trim(value)), Separators))

\* toComparablePhoneNumber from the normalized value on
comparableOf(normalized) ==
    IF normalized = Null THEN Null ELSE KeepAll(normalized, Digits)

toComparablePhoneNumber(value) == comparableOf(normalizePhoneNumber(value))

\* isSamePhoneNumber from the two comparable values on
sameComparable(aComparable, bComparable) ==
    IF aComparable = Null \/ bComparable = Null THEN FALSE
    ELSE aComparable = bComparable

isSamePhoneNumber(a, b) ==
    sameComparable(toComparablePhoneNumber(a), toComparablePhoneNumber(b))

\* getHandoffNumberCandidates from the normalized extra_number on
candidatesOf(normalized) == IF normalized = Null THEN <<>> ELSE <<normalized>>

\* getHandoffNumberCandidates: HANDOFF_NUMBER_KEYS holds the one key extra_number;
\* settings = Null stands for missing settings or a missing extra_number
getHandoffNumberCandidates(extraNumber) == candidatesOf(normalizePhoneNumber(extraNumber))

RECURSIVE FirstUsable(_, _, _, _)
\* the for-loop of resolveHandoffTargetNumber: the first candidate not skipped
FirstUsable(candidates, normalizedBotNumber, forwardedFrom, allowSameNumber) ==
    IF Len(candidates) = 0 THEN Null
    ELSE LET candidate == candidates[1]
             matchesBotNumber == isSamePhoneNumber(candidate, normalizedBotNumber)
             matchesForwardedFrom == isSamePhoneNumber(candidate, forwardedFrom)
         IN IF ~allowSameNumber /\ (matchesBotNumber \/ matchesForwardedFrom)
            THEN FirstUsable(Tail(candidates), normalizedBotNumber, forwardedFrom, allowSameNumber)
            ELSE candidate

\* resolveHandoffTargetNumber from the candidates and the normalized bot number on
resolveAmong(candidates, normalizedBotNumber, forwardedFrom, allowSameNumber) ==
    IF Len(candidates) = 0 THEN Null
    ELSE IF allowSameNumber /\ normalizedBotNumber = Null THEN Null
    ELSE FirstUsable(candidates, normalizedBotNumber, forwardedFrom, allowSameNumber)

\* a resolution that takes the first candidate whatever it matches
resolveHandoffTargetNumberUnchecked(extraNumber, botNumber, forwardedFrom, allowSameNumber) ==
    LET candidates == getHandoffNumberCandidates(extraNumber)
    IN IF Len(candidates) = 0 THEN Null ELSE candidates[1]

\* resolveHandoffTargetNumber(settings, {botNumber, forwardedFrom, allowSameNumber}).targetNumber
resolveHandoffTargetNumber(extraNumber, botNumber, forwardedFrom, allowSameNumber) ==
    resolveAmong(getHandoffNumberCandidates(extraNumber), normalizePhoneNumber(botNumber),
                 forwardedFrom, allowSameNumber)

(***************************************************************************)
(* State: the closure variables of the /media-stream handler.              *)
(***************************************************************************)
VARIABLES
    call,              \* scalar closure variables (streamSid, callActive, callSid, ...)
    handoffState,      \* {inProgress, awaitingConfirmation, consecutiveMisunderstandings}
    callEndState,      \* {shouldHangupAfterAssistantReply, hangupScheduled}
    pendingTurns,      \* the turn queue
    firstTurnBuffer,   \* Null or the first-turn coalescing buffer with its timer
    messages,          \* the conversation history
    dg,                \* recognition connections and the three deepgram* flags
    timers,            \* greetingTimer and hangupTimer (pending or not)
    tasks,             \* suspended async activations, each waiting at an await
    transcriptQueue,   \* transcriptQueue (items) and transcriptQueueRunning
    practiceCache,     \* the process-wide cache of the tenant's settings row, or Null
    supabase,          \* the datastore: the tenant's row (or Null) and its calls this month
    evaluation,        \* the call of a pure function under evaluation: arguments and result
    obs                \* observations of what left the session (history only)

vars == <<call, handoffState, callEndState, pendingTurns, firstTurnBuffer,
          messages, dg, timers, tasks, transcriptQueue, practiceCache, supabase,
          evaluation, obs>>

\* the whole state as one record, so that the synchronous code of a handler
\* can be written as a composition of functions
St == [call |-> call, handoffState |-> handoffState, callEndState |-> callEndState,
       pendingTurns |-> pendingTurns, firstTurnBuffer |-> firstTurnBuffer,
       messages |-> messages, dg |-> dg, timers |-> timers, tasks |-> tasks,
       transcriptQueue |-> transcriptQueue, practiceCache |-> practiceCache,
       supabase |-> supabase, evaluation |-> evaluation, obs |-> obs]

Apply(r) ==
    /\ call' = r.call
    /\ handoffState' = r.handoffState
    /\ callEndState' = r.callEndState
    /\ pendingTurns' = r.pendingTurns
    /\ firstTurnBuffer' = r.firstTurnBuffer
    /\ messages' = r.messages
    /\ dg' = r.dg
    /\ timers' = r.timers
    /\ tasks' = r.tasks
    /\ transcriptQueue' = r.transcriptQueue
    /\ practiceCache' = r.practiceCache
    /\ supabase' = r.supabase
    /\ evaluation' = r.evaluation
    /\ obs' = r.obs

NoContent == "none"

\* no pure function is under evaluation
NoEvaluation == [fn |-> "none"]

\* an activation suspended at an await: pc names the awaited call, after names
\* the code that runs when it completes
NewTask(kind, pc, after) ==
    [kind |-> kind, pc |-> pc, after |-> after, text |-> <<>>, isFirstTurn |-> FALSE,
     llmCalls |-> 0, content |-> NoContent, tools |-> <<>>, forced |-> FALSE,
     toolChoice |-> "auto", failed |-> FALSE, pinnedCalls |-> 0,
     lastReplyHadTools |-> FALSE, item |-> 0, attempt |-> 0, settings |-> Null]

RemoveAt(seq, i) == SubSeq(seq, 1, i - 1) \o SubSeq(seq, i + 1, Len(seq))

CheckVerbWords == {"pruefen"}
AvailabilityWords == {"tisch", "frei"}
DateWords == {"morgen"}
TimeWords == {"19uhr"}
PartySizeWords == {"4personen"}

\* messages holds what the session reads back from the history (the last user
\* text and the date/time/party-size signals of the user texts after
\* lastAvailabilityCheckIndex) and, in the specifications that record it
\* (recorded = TRUE), the list itself: role and content of every message in order.
EmptyHistory ==
    [recorded |-> FALSE, list |-> <<>>, lastUser |-> <<>>, hasDate |-> FALSE,
     hasTime |-> FALSE, hasPartySize |-> FALSE]

\* let messages = [], recorded
RecordedHistory == [EmptyHistory EXCEPT !.recorded = TRUE]

ListEntry(m) == [role |-> m.role, content |-> m.content, tools |-> m.tools]

\* a push that keeps the system message and the last two messages only
PushToListTrimmed(history, m) ==
    IF history.recorded
    THEN IF Len(history.list) >= 3
         THEN <<history.list[1], history.list[Len(history.list)], ListEntry(m)>>
         ELSE Append(history.list, ListEntry(m))
    ELSE history.list

\* the list after messages.push(m)
PushToList(history, m) ==
    IF history.recorded THEN Append(history.list, ListEntry(m)) ELSE history.list

\* messages = [{ role: "system", content: buildSystemMessage(practiceSettings) }]
SystemHistory(s) ==
    [EmptyHistory EXCEPT !.recorded = s.messages.recorded,
                         !.list = PushToList([s.messages EXCEPT !.list = <<>>],
                                             [role |-> "system", content |-> "system",
                                              tools |-> <<>>])]

InitState ==
    [call |-> [streamSid |-> FALSE, callActive |-> FALSE, callSid |-> FALSE,
               connection |-> "open", practiceSettings |-> FALSE,
               extraNumber |-> Null, botPhoneNumber |-> Null,
               forwardedFromNumber |-> Null, allowSameNumber |-> FALSE,
               notificationsConfigured |-> FALSE,
               perfV2EnabledForCall |-> FALSE, callLogId |-> FALSE,
               processing |-> FALSE, hasProcessedFirstUserTurn |-> FALSE],
     handoffState |-> [inProgress |-> FALSE, awaitingConfirmation |-> FALSE,
                       consecutiveMisunderstandings |-> 0],
     callEndState |-> [shouldHangupAfterAssistantReply |-> FALSE, hangupScheduled |-> FALSE],
     pendingTurns |-> <<>>,
     firstTurnBuffer |-> Null,
     messages |-> EmptyHistory,
     dg |-> [conns |-> <<>>, deepgramConnected |-> FALSE,
             deepgramFallbackAttempted |-> FALSE, deepgramFailureHandled |-> FALSE],
     timers |-> [greetingTimer |-> FALSE, hangupTimer |-> FALSE],
     tasks |-> <<>>,
     transcriptQueue |-> [items |-> <<>>, running |-> FALSE],
     practiceCache |-> Null,
     supabase |-> [practice |-> Null, calls |-> 0, reservations |-> <<>>],
     evaluation |-> NoEvaluation,
     obs |-> [transcripts |-> 0, mediaSentInactive |-> FALSE,
              transferRequests |-> 0, transferTargets |-> {}, handoffStarts |-> 0,
              handoffFailures |-> 0, handoffAccepted |-> FALSE,
              markedRun |-> 0, droppedOldest |-> FALSE, lastFinal |-> <<>>,
              firstTurns |-> 0, fallbacks |-> 0, accessNumber |-> Null, routeTick |-> FALSE, lastRoute |-> "none",
              llmWhileHandoff |-> FALSE, llmAfterHandoff |-> FALSE,
              llmWhileAwaiting |-> FALSE,
              llmWhileInactive |-> FALSE, fragments |-> <<>>,
              mediaSentAfterAccept |-> FALSE, accessDenied |-> FALSE,
              hangupRequests |-> 0,
              firstAttemptError |-> "none", frames |-> 0, dgSent |-> <<>>,
              llmAfterError |-> FALSE, pinnedUnfounded |-> FALSE,
              pinnedAfterToolReply |-> FALSE, reservationSucceeded |-> FALSE,
              replyAfterReservation |-> FALSE, turnWhileInactive |-> FALSE,
              cancelled |-> {},
              entries |-> 0, lastAttempted |-> 0, attemptsOfLast |-> 0,
              notifications |-> <<>>, staleAtCheck |-> FALSE]]

(***************************************************************************)
(* Synchronous building blocks.  Each takes the state record s and the     *)
(* index i of the running activation in s.tasks and returns the state at   *)
(* the next suspension point of that activation.                           *)
(***************************************************************************)
Msg(role, content, text, tools) ==
    [role |-> role, content |-> content, text |-> text, tools |-> tools]

\* messages.push(m)
PushMessage(s, m) ==
    IF m.role = "user"
    THEN [s EXCEPT !.messages.list = PushToList(s.messages, m),
                   !.messages.lastUser = m.text,
                   !.messages.hasDate = @ \/ HasWord(m.text, DateWords),
                   !.messages.hasTime = @ \/ HasWord(m.text, TimeWords),
                   !.messages.hasPartySize = @ \/ HasWord(m.text, PartySizeWords)]
    ELSE IF m.role = "assistant" /\ m.content \in {"decline", "retry", "handoff", "fallback"}
    THEN [s EXCEPT !.messages.list = PushToList(s.messages, m),
                   !.obs.markedRun = 0,
                   !.obs.fallbacks = IF m.content = "fallback" THEN @ + 1 ELSE @]
    ELSE [s EXCEPT !.messages.list = PushToList(s.messages, m)]

\* lastAvailabilityCheckIndex = messages.length: no user text lies after the index
markAvailabilityChecked(s) ==
    [s EXCEPT !.messages.hasDate = FALSE, !.messages.hasTime = FALSE,
              !.messages.hasPartySize = FALSE]

\* task i stops at an await (or enters speak / recordTranscriptEntry) and will go on
\* at the label after
Suspend(s, i, pc, after) == [s EXCEPT !.tasks[i].pc = pc, !.tasks[i].after = after]

\* task i goes on at the label
Goto(s, i, label) == [s EXCEPT !.tasks[i].pc = label]

\* the awaits of the session: a task at one of them waits for a collaborator
AwaitPcs ==
    {"access", "forward", "calllog", "rec", "tts", "llm", "tool", "transfer", "hangupCall",
     "createTranscriptEntry", "sleep", "fetch", "retryDelay", "callCount"}

\* QUICK_FILLER gate of handleUserTurn
shouldSendQuickFiller(s, text) ==
    s.call.perfV2EnabledForCall /\ HasWord(text, QuickFillerWords)

\* clearFirstTurnBuffer: clearTimeout and firstTurnBuffer = null
clearFirstTurnBuffer(s) == [s EXCEPT !.firstTurnBuffer = Null]

\* speak(text): the guard and the start of generateTTS; the send happens in TtsDone
speak(s, i) ==
    IF ~s.call.callActive \/ ~s.call.streamSid
    THEN Goto(s, i, s.tasks[i].after)
    ELSE Goto(s, i, "tts")

RECURSIVE Run(_, _)

\* the while loop of processTranscriptQueue: worker i shifts the next item and
\* starts its attempts, or finds the queue empty and leaves through finally
processTranscriptQueueLoop(s, i) ==
    IF Len(s.transcriptQueue.items) > 0
    THEN Goto([s EXCEPT !.tasks[i].item = Head(s.transcriptQueue.items),
                        !.tasks[i].attempt = 0,
                        !.transcriptQueue.items = Tail(@)], i, "attempt")
    ELSE Goto([s EXCEPT !.transcriptQueue.running = FALSE], i, "exit")

\* the for loop of processTranscriptQueue calls createTranscriptEntry for the item
attemptTranscriptEntry(s, i) ==
    Goto([s EXCEPT !.obs.lastAttempted = s.tasks[i].item,
                   !.obs.attemptsOfLast =
                       IF s.obs.lastAttempted = s.tasks[i].item
                       THEN Min(@ + 1, TRANSCRIPT_QUEUE_RETRIES + 2) ELSE 1],
         i, "createTranscriptEntry")

\* the for loop of processTranscriptQueue after createTranscriptEntry returned
transcriptWriteReturned(s, i, success) ==
    IF success THEN Goto(s, i, "processTranscriptQueueLoop")
    ELSE IF s.tasks[i].attempt >= TRANSCRIPT_QUEUE_RETRIES
    THEN Goto(s, i, "processTranscriptQueueLoop")
    ELSE Goto(s, i, "sleep")

\* a worker that starts without looking at transcriptQueueRunning
processTranscriptQueueUnguarded(s) ==
    LET s1 == [s EXCEPT !.transcriptQueue.running = TRUE,
                        !.tasks = Append(@, NewTask("transcripts", "processTranscriptQueueLoop", "exit"))]
    IN Run(s1, Len(s1.tasks))

\* processTranscriptQueue(), called without await by enqueueTranscriptEntry
processTranscriptQueue(s) ==
    IF s.transcriptQueue.running THEN s
    ELSE LET s1 == [s EXCEPT !.transcriptQueue.running = TRUE,
                             !.tasks = Append(@, NewTask("transcripts", "processTranscriptQueueLoop", "exit"))]
         IN Run(s1, Len(s1.tasks))

\* enqueueTranscriptEntry(callLogId, role, content): the entries are numbered in
\* the order of their arrival
enqueueTranscriptEntry(s) ==
    IF ~s.call.callLogId THEN s
    ELSE processTranscriptQueue(
             [s EXCEPT !.transcriptQueue.items = Append(@, s.obs.entries + 1),
                       !.obs.entries = @ + 1])

\* recordTranscriptEntry(role, content): awaits the datastore only in legacy mode;
\* in low-latency mode the entry goes to the transcript queue and the caller goes on
recordTranscriptEntry(s, i) ==
    IF ~s.call.callLogId THEN Goto(s, i, s.tasks[i].after)
    ELSE IF ~s.call.perfV2EnabledForCall THEN Goto(s, i, "rec")
    ELSE Goto(enqueueTranscriptEntry(s), i, s.tasks[i].after)

\* initiateHandoff(reason) up to its first await
initiateHandoff(s, i) ==
    IF s.handoffState.inProgress \/ ~s.call.callActive
    THEN Goto(s, i, "done")
    ELSE LET s1 == [s EXCEPT !.handoffState.inProgress = TRUE,
                             !.obs.handoffStarts = @ + 1]
             s2 == PushMessage(s1, Msg("assistant", "handoff", <<>>, <<>>))
         IN Suspend(s2, i, "speak", "ho_after_speak")

\* the rest of initiateHandoff once the handoff phrase is spoken and recorded:
\* resolve the target and ask the telephony collaborator, or fall back
handoffResolveAndTransfer(s, i) ==
    LET targetNumber == resolveHandoffTargetNumber(s.call.extraNumber,
                            s.call.botPhoneNumber, s.call.forwardedFromNumber,
                            s.call.allowSameNumber)
    IN IF targetNumber = Null
       THEN Suspend(PushMessage(s, Msg("assistant", "fallback", <<>>, <<>>)), i, "speak", "ho_fb_after_speak")
       ELSE IF ~s.call.callSid
       THEN \* transferCallToNumber returns {ok: false} without a request
            Suspend(PushMessage(s, Msg("assistant", "fallback", <<>>, <<>>)), i, "speak", "ho_fb_after_speak")
       ELSE Suspend([s EXCEPT !.obs.transferRequests = @ + 1,
                              !.obs.transferTargets = @ \cup {targetNumber}],
                    i, "transfer", "done")

\* a failed handoff that also ends the consumer it ran in
handoffFailedEndsConsumer(s, i) ==
    Goto([s EXCEPT !.handoffState.inProgress = FALSE,
                   !.obs.handoffFailures = @ + 1,
                   !.call.processing = IF s.tasks[i].kind = "turn" THEN FALSE ELSE @],
         i, "exit")

\* the failure branches of initiateHandoff after the fallback is spoken and recorded
handoffFailed(s, i) ==
    Goto([s EXCEPT !.handoffState.inProgress = FALSE,
                   !.obs.handoffFailures = @ + 1], i, "done")

\* shouldOfferHandoff(text): counts the marker, then compares with the threshold
shouldOfferHandoffState(s, marked) ==
    [s EXCEPT !.handoffState.consecutiveMisunderstandings = IF marked THEN @ + 1 ELSE 0,
              !.obs.markedRun = IF marked THEN @ + 1 ELSE 0]

\* an offer that waits for one marked reply more than the threshold
shouldOfferHandoffResultLate(s1) ==
    IF s1.handoffState.awaitingConfirmation THEN FALSE
    ELSE s1.handoffState.consecutiveMisunderstandings > HANDOFF_THRESHOLD_MISUNDERSTANDINGS

shouldOfferHandoffResult(s1) ==
    IF s1.handoffState.awaitingConfirmation THEN FALSE
    ELSE s1.handoffState.consecutiveMisunderstandings >= HANDOFF_THRESHOLD_MISUNDERSTANDINGS

\* promptHandoffConfirmation
promptHandoffConfirmation(s, i) ==
    IF s.handoffState.inProgress \/ s.handoffState.awaitingConfirmation \/ ~s.call.callActive
    THEN Goto(s, i, "done")
    ELSE LET s1 == [s EXCEPT !.handoffState.awaitingConfirmation = TRUE,
                             !.handoffState.consecutiveMisunderstandings = 0]
         IN Suspend(PushMessage(s1, Msg("assistant", "prompt", <<>>, <<>>)), i, "speak", "rec_then_done")

\* a confirmation step that never takes the turn
handleHandoffConfirmationSkipped(s, text) == FALSE

\* handleHandoffConfirmation(text): TRUE when the turn was consumed
handleHandoffConfirmationConsumes(s, text) == s.handoffState.awaitingConfirmation

\* a confirmation step that takes every text that does not decline as a yes
handleHandoffConfirmationUnlessDeclined(s, i, text) ==
    IF ~isNegativeResponse(text)
    THEN Goto([s EXCEPT !.handoffState.awaitingConfirmation = FALSE], i, "initiateHandoff")
    ELSE LET s1 == [s EXCEPT !.handoffState.awaitingConfirmation = FALSE,
                             !.handoffState.consecutiveMisunderstandings = 0]
         IN Suspend(PushMessage(s1, Msg("assistant", "decline", <<>>, <<>>)), i, "speak", "rec_then_done")

handleHandoffConfirmation(s, i, text) ==
    IF isAffirmativeResponse(text)
    THEN Goto([s EXCEPT !.handoffState.awaitingConfirmation = FALSE], i, "initiateHandoff")
    ELSE IF isNegativeResponse(text)
    THEN LET s1 == [s EXCEPT !.handoffState.awaitingConfirmation = FALSE,
                             !.handoffState.consecutiveMisunderstandings = 0]
         IN Suspend(PushMessage(s1, Msg("assistant", "decline", <<>>, <<>>)), i, "speak", "rec_then_done")
    ELSE Suspend(PushMessage(s, Msg("assistant", "retry", <<>>, <<>>)), i, "speak", "rec_then_done")

\* shouldForceAvailabilityCall on a user text
shouldForceAvailabilityCall(text) ==
    HasWord(text, CheckVerbWords) /\ HasWord(text, AvailabilityWords)

\* shouldForceAvailabilityCall on an assistant reply: only the reply kind "intent"
\* stands for a text with a check verb and an availability word
shouldForceAvailabilityCallContent(content) == content = "intent"

\* hasAvailabilityInputs(messages, lastAvailabilityCheckIndex) via getConversationSignals
hasAvailabilityInputs(history) ==
    history.hasDate /\ history.hasTime /\ history.hasPartySize

\* [...messages].reverse().find(role === "user")?.content || ""
lastUserMessage(history) == history.lastUser

\* openai.chat.completions.create is called: the request leaves the session
issueLlmRequest(s, i, toolChoice, forced) ==
    [s EXCEPT !.tasks[i].pc = "llm", !.tasks[i].after = "done",
              !.tasks[i].toolChoice = toolChoice, !.tasks[i].forced = forced,
              !.tasks[i].llmCalls = Min(@ + 1, MaxLlmCalls + 1),
              !.obs.llmWhileHandoff = @ \/ s.handoffState.inProgress,
              !.obs.llmAfterHandoff = @ \/ s.obs.handoffStarts > 0,
              !.obs.llmWhileAwaiting = @ \/ s.handoffState.awaitingConfirmation,
              !.obs.llmWhileInactive = @ \/ ~s.call.callActive,
              !.obs.llmAfterError = @ \/ s.tasks[i].failed,
              !.tasks[i].pinnedCalls = IF toolChoice = "check_availability"
                                       THEN Min(@ + 1, MaxLlmCalls + 1) ELSE @,
              !.obs.pinnedAfterToolReply =
                  @ \/ (toolChoice = "check_availability" /\ s.tasks[i].lastReplyHadTools),
              !.obs.pinnedUnfounded =
                  @ \/ /\ toolChoice = "check_availability"
                       /\ ~hasAvailabilityInputs(s.messages)
                       /\ ~shouldForceAvailabilityCall(lastUserMessage(s.messages))
                       /\ ~shouldForceAvailabilityCallContent(s.tasks[i].content)]

\* processAgentTurn up to its completion request
processAgentTurn(s, i) ==
    IF s.handoffState.inProgress THEN Goto(s, i, "done")
    ELSE LET forceAvailabilityTool ==
                 /\ s.call.perfV2EnabledForCall
                 /\ \/ shouldForceAvailabilityCall(lastUserMessage(s.messages))
                    \/ hasAvailabilityInputs(s.messages)
         IN issueLlmRequest(s, i, IF forceAvailabilityTool THEN "check_availability" ELSE "auto", FALSE)

\* scheduleReservationCompletionHangup
scheduleReservationCompletionHangup(s) ==
    IF ~s.call.callActive \/ s.callEndState.hangupScheduled THEN s
    ELSE [s EXCEPT !.callEndState.hangupScheduled = TRUE, !.timers.hangupTimer = TRUE]

\* processAgentTurn after the reply was pushed, spoken and recorded
afterAgentReply(s, i) ==
    LET t == s.tasks[i]
        spoken == t.content # NoContent
        s1 == IF spoken THEN shouldOfferHandoffState(s, t.content = "marked") ELSE s
    IN IF spoken /\ shouldOfferHandoffResult(s1)
       THEN Goto(s1, i, "promptHandoffConfirmation")
       ELSE IF t.tools # <<>>
       THEN Suspend(s1, i, "tool", "done")
       ELSE IF s1.callEndState.shouldHangupAfterAssistantReply /\ spoken
       THEN Goto(scheduleReservationCompletionHangup(
                     [s1 EXCEPT !.callEndState.shouldHangupAfterAssistantReply = FALSE]),
                 i, "done")
       ELSE IF /\ ~s1.call.perfV2EnabledForCall
               /\ \/ shouldForceAvailabilityCallContent(t.content)
                  \/ hasAvailabilityInputs(s1.messages)
       THEN issueLlmRequest(s1, i, "check_availability", TRUE)
       ELSE Goto(s1, i, "done")

\* handleUserTurn(turn) up to its first await
handleUserTurn(s, i, turn) ==
    LET s1 == [s EXCEPT !.obs.turnWhileInactive = @ \/ ~s.call.callActive,
                        !.tasks[i].text = turn.text,
                        !.tasks[i].isFirstTurn = turn.isFirstTurn,
                        !.tasks[i].llmCalls = 0,
                        !.tasks[i].content = NoContent,
                        !.tasks[i].tools = <<>>,
                        !.tasks[i].forced = FALSE,
                        !.tasks[i].toolChoice = "auto",
                        !.tasks[i].failed = FALSE,
                        !.tasks[i].pinnedCalls = 0,
                        !.tasks[i].lastReplyHadTools = FALSE]
    IN Suspend(PushMessage(s1, Msg("user", NoContent, turn.text, <<>>)),
               i, "recordTranscriptEntry", "hu_after_rec")

\* handleUserTurn after the user message is recorded
afterUserRecorded(s, i) ==
    LET t == s.tasks[i]
        routed(route) == [s EXCEPT !.obs.routeTick = ~@, !.obs.lastRoute = route]
    IN IF handleHandoffConfirmationConsumes(s, t.text)
       THEN Goto(routed(IF isAffirmativeResponse(t.text) THEN "confirm_yes"
                        ELSE IF isNegativeResponse(t.text) THEN "confirm_no"
                        ELSE "confirm_other"), i, "handleHandoffConfirmation")
       ELSE IF isExplicitHandoffRequest(t.text)
       THEN Goto(routed("explicit"), i, "initiateHandoff")
       ELSE IF ~t.isFirstTurn /\ shouldSendQuickFiller(s, t.text)
       THEN Suspend(routed("agent"), i, "speak", "qf_after_speak")
       ELSE Goto(routed("agent"), i, "processAgentTurn")

\* the loop condition of processPendingTurns
loopCondition(s) ==
    Len(s.pendingTurns) > 0 /\ s.call.callActive /\ ~s.handoffState.inProgress

\* the while loop of processPendingTurns, entered at its condition, run by task i
processPendingTurnsLoop(s, i) ==
    IF loopCondition(s)
    THEN handleUserTurn([s EXCEPT !.pendingTurns = Tail(@)], i, Head(s.pendingTurns))
    ELSE Goto([s EXCEPT !.call.processing = FALSE], i, "exit")

\* processAgentTurn when speak(msg.content) has returned: record the reply
afterReplySpoken(s, i) ==
    Suspend([s EXCEPT !.obs.replyAfterReservation =
                          @ \/ s.callEndState.shouldHangupAfterAssistantReply],
            i, "recordTranscriptEntry", "ag_after_rec")

\* a catch block that asks the model once more instead of apologising
processAgentTurnCatchRetries(s, i) ==
    issueLlmRequest([s EXCEPT !.tasks[i].failed = TRUE], i, "auto", FALSE)

\* the catch block of processAgentTurn: speak the apology, then return
processAgentTurnCatch(s, i) ==
    Suspend([s EXCEPT !.tasks[i].failed = TRUE], i, "speak", "done")

\* the synchronous code task i runs next, up to its next branch, call or await
Step(s, i) ==
    LET pc == s.tasks[i].pc
    IN CASE pc = "speak" -> speak(s, i)
         [] pc = "recordTranscriptEntry" -> recordTranscriptEntry(s, i)
         [] pc = "initiateHandoff" -> initiateHandoff(s, i)
         [] pc = "ho_after_speak" -> Suspend(s, i, "recordTranscriptEntry", "ho_after_rec")
         [] pc = "ho_after_rec" -> handoffResolveAndTransfer(s, i)
         [] pc = "ho_fb_after_speak" -> Suspend(s, i, "recordTranscriptEntry", "ho_fb_after_rec")
         [] pc = "ho_fb_after_rec" -> handoffFailed(s, i)
         [] pc = "promptHandoffConfirmation" -> promptHandoffConfirmation(s, i)
         [] pc = "handleHandoffConfirmation" -> handleHandoffConfirmation(s, i, s.tasks[i].text)
         [] pc = "rec_then_done" -> Suspend(s, i, "recordTranscriptEntry", "done")
         [] pc = "processPendingTurnsLoop" -> processPendingTurnsLoop(s, i)
         [] pc = "hu_after_rec" -> afterUserRecorded(s, i)
         [] pc = "qf_after_speak" -> Suspend(s, i, "recordTranscriptEntry", "qf_after_rec")
         [] pc = "qf_after_rec" -> Goto(s, i, "processAgentTurn")
         [] pc = "processAgentTurn" -> processAgentTurn(s, i)
         [] pc = "ag_after_speak" -> afterReplySpoken(s, i)
         [] pc = "ag_after_rec" -> afterAgentReply(s, i)
         [] pc = "llm_error" -> processAgentTurnCatch(s, i)
         [] pc = "st_after_rec" -> Goto(s, i, "exit")
         [] pc = "processTranscriptQueueLoop" -> processTranscriptQueueLoop(s, i)
         [] pc = "attempt" -> attemptTranscriptEntry(s, i)
         [] pc = "done" ->
                IF s.tasks[i].kind = "turn" THEN Goto(s, i, "processPendingTurnsLoop")
                ELSE Goto(s, i, "exit")

\* task i runs without interruption until it awaits or returns
Run(s, i) ==
    IF s.tasks[i].pc \in AwaitPcs THEN s
    ELSE IF s.tasks[i].pc = "exit" THEN [s EXCEPT !.tasks = RemoveAt(@, i)]
    ELSE Run(Step(s, i), i)

\* a consumer that starts without looking at the processing flag
processPendingTurnsUnguarded(s) ==
    LET s1 == [s EXCEPT !.call.processing = TRUE,
                        !.tasks = Append(@, NewTask("turn", "processPendingTurnsLoop", "done"))]
    IN Run(s1, Len(s1.tasks))

\* processPendingTurns(), called without await by enqueueTurn
processPendingTurns(s) ==
    IF s.call.processing THEN s
    ELSE LET s1 == [s EXCEPT !.call.processing = TRUE,
                             !.tasks = Append(@, NewTask("turn", "processPendingTurnsLoop", "done"))]
         IN Run(s1, Len(s1.tasks))

\* a queue that appends without making room
enqueueTurnKeepsAll(s, text, isFirstTurn) ==
    IF text = <<>> THEN s
    ELSE processPendingTurns(
             [s EXCEPT !.pendingTurns = Append(@, [text |-> text, isFirstTurn |-> isFirstTurn])])

\* enqueueTurn(text, sttFinalAt, {isFirstTurn})
enqueueTurn(s, text, isFirstTurn) ==
    IF text = <<>> THEN s
    ELSE LET full == Len(s.pendingTurns) >= TURN_QUEUE_MAX_SIZE
             kept == IF full THEN Tail(s.pendingTurns) ELSE s.pendingTurns
             s1 == [s EXCEPT !.pendingTurns = Append(kept, [text |-> text, isFirstTurn |-> isFirstTurn]),
                             !.obs.droppedOldest = @ \/ full,
                             !.obs.firstTurns = IF isFirstTurn THEN Min(@ + 1, 2) ELSE @]
         IN processPendingTurns(s1)

\* flushFirstTurnBuffer
flushFirstTurnBuffer(s) ==
    IF s.firstTurnBuffer = Null THEN s
    ELSE LET mergedText == MergeParts(s.firstTurnBuffer.parts)
             s1 == [clearFirstTurnBuffer(s) EXCEPT !.call.hasProcessedFirstUserTurn = TRUE]
         IN IF mergedText # <<>> THEN enqueueTurn(s1, mergedText, TRUE) ELSE s1

\* a scheduling that sets the new timer without clearing the one that is
\* pending: the earlier of the two fires first
scheduleFirstTurnBufferFlushKeepsTimer(s, delayMs) ==
    IF s.firstTurnBuffer = Null THEN s
    ELSE LET due == s.firstTurnBuffer.elapsed + delayMs
         IN [s EXCEPT !.firstTurnBuffer.timerDue =
                          IF s.firstTurnBuffer.timers > 0 THEN Min(@, due) ELSE due,
                      !.firstTurnBuffer.timers = @ + 1]

\* scheduleFirstTurnBufferFlush(delayMs): clearTimeout, then setTimeout; timers
\* counts the timers of the buffer that are set and have not fired
scheduleFirstTurnBufferFlush(s, delayMs) ==
    IF s.firstTurnBuffer = Null THEN s
    ELSE [s EXCEPT !.firstTurnBuffer.timerDue = s.firstTurnBuffer.elapsed + delayMs,
                   !.firstTurnBuffer.timers = (IF @ > 0 THEN @ - 1 ELSE @) + 1]

\* a coalescer that keeps only the latest fragment
handleIncomingFinalTranscriptKeepsLast(s, cleanText) ==
    IF cleanText = <<>> THEN s
    ELSE IF ~s.call.hasProcessedFirstUserTurn
    THEN IF s.firstTurnBuffer = Null
         THEN scheduleFirstTurnBufferFlush(
                  [s EXCEPT !.firstTurnBuffer =
                                [parts |-> <<cleanText>>, elapsed |-> 0, timerDue |-> 0, timers |-> 0]],
                  Min(INITIAL_TURN_FIRST_CHUNK_WAIT_MS, INITIAL_TURN_MAX_WAIT_MS))
         ELSE LET s1 == [s EXCEPT !.firstTurnBuffer.parts = <<cleanText>>]
                  delay == Min(INITIAL_TURN_COALESCE_MS,
                               Max(0, INITIAL_TURN_MAX_WAIT_MS - s.firstTurnBuffer.elapsed))
              IN IF delay <= 0 THEN flushFirstTurnBuffer(s1)
                 ELSE scheduleFirstTurnBufferFlush(s1, delay)
    ELSE enqueueTurn(s, cleanText, FALSE)

\* a coalescer that waits INITIAL_TURN_COALESCE_MS after every further fragment
handleIncomingFinalTranscriptNoDeadline(s, cleanText) ==
    IF cleanText = <<>> THEN s
    ELSE IF ~s.call.hasProcessedFirstUserTurn
    THEN IF s.firstTurnBuffer = Null
         THEN scheduleFirstTurnBufferFlush(
                  [s EXCEPT !.firstTurnBuffer =
                                [parts |-> <<cleanText>>, elapsed |-> 0, timerDue |-> 0, timers |-> 0]],
                  Min(INITIAL_TURN_FIRST_CHUNK_WAIT_MS, INITIAL_TURN_MAX_WAIT_MS))
         ELSE scheduleFirstTurnBufferFlush(
                  [s EXCEPT !.firstTurnBuffer.parts = Append(@, cleanText)],
                  INITIAL_TURN_COALESCE_MS)
    ELSE enqueueTurn(s, cleanText, FALSE)

\* handleIncomingFinalTranscript(cleanText); the buffer keeps the time since startedAt
handleIncomingFinalTranscript(s, cleanText) ==
    IF cleanText = <<>> THEN s
    ELSE IF ~s.call.hasProcessedFirstUserTurn
    THEN IF s.firstTurnBuffer = Null
         THEN LET firstWait == Min(INITIAL_TURN_FIRST_CHUNK_WAIT_MS, INITIAL_TURN_MAX_WAIT_MS)
                  s1 == [s EXCEPT !.firstTurnBuffer =
                                       [parts |-> <<cleanText>>, elapsed |-> 0, timerDue |-> 0, timers |-> 0]]
              IN scheduleFirstTurnBufferFlush(s1, firstWait)
         ELSE LET s1 == [s EXCEPT !.firstTurnBuffer.parts = Append(@, cleanText)]
                  elapsed == Max(0, s.firstTurnBuffer.elapsed)
                  remaining == Max(0, INITIAL_TURN_MAX_WAIT_MS - elapsed)
                  delay == Min(INITIAL_TURN_COALESCE_MS, remaining)
              IN IF delay <= 0
                 THEN flushFirstTurnBuffer(s1)
                 ELSE scheduleFirstTurnBufferFlush(s1, delay)
    ELSE enqueueTurn(s, cleanText, FALSE)

(***************************************************************************)
(* Actions: one per event the session reacts to.                           *)
(***************************************************************************)
TaskAt(i, pc) == i \in 1..Len(tasks) /\ tasks[i].pc = pc

\* getDeepgramLiveOptions(useFallback): the two options that depend on the mode
getDeepgramLiveOptions(useFallback, perfV2EnabledForCall) ==
    [endpointing |-> IF useFallback THEN DG_ENDPOINTING_MS_LEGACY
                     ELSE IF perfV2EnabledForCall THEN DG_ENDPOINTING_MS
                     ELSE DG_ENDPOINTING_MS_LEGACY,
     utterance_end_ms |-> IF useFallback THEN DG_UTTERANCE_END_MS_LEGACY
                          ELSE IF perfV2EnabledForCall THEN DG_UTTERANCE_END_MS
                          ELSE DG_UTTERANCE_END_MS_LEGACY]

\* startDeepgram({useFallback})
startDeepgram(s, useFallback) ==
    [s EXCEPT !.dg.deepgramConnected = FALSE,
              !.dg.conns = Append(@, [useFallback |-> useFallback, state |-> "connecting",
                                      liveOptions |-> getDeepgramLiveOptions(
                                                          useFallback,
                                                          s.call.perfV2EnabledForCall)])]

\* dg?.finish() on the current connection
dgFinish(s) ==
    IF s.dg.conns = <<>> THEN s
    ELSE LET k == Len(s.dg.conns)
             st == s.dg.conns[k].state
         IN [s EXCEPT !.dg.conns[k].state =
                 IF st = "open" THEN "finishing" ELSE IF st = "connecting" THEN "closed" ELSE st]

\* connection.on("message") with event "start", up to the await in ensurePracticeSettings
Start(callSids, perfModes, botNumbers, forwardNumbers) ==
    /\ call.connection = "open"
    /\ ~call.streamSid
    /\ \E cs \in callSids, pv \in perfModes, bn \in botNumbers, ff \in forwardNumbers :
         Apply([clearFirstTurnBuffer(St) EXCEPT
                   !.call.streamSid = TRUE,
                   !.call.callActive = TRUE,
                   !.dg.deepgramConnected = FALSE,
                   !.dg.deepgramFallbackAttempted = FALSE,
                   !.dg.deepgramFailureHandled = FALSE,
                   !.call.hasProcessedFirstUserTurn = FALSE,
                   !.timers.greetingTimer = FALSE,
                   !.call.callSid = cs,
                   !.call.perfV2EnabledForCall = pv,
                   !.call.botPhoneNumber = bn,
                   !.call.forwardedFromNumber = ff,
                   !.tasks = Append(@, NewTask("start", "access", "done"))])

\* the rest of the start handler when checkPracticeAccess allows the call
startAllowed(s, i, extra) ==
    LET s1 == [s EXCEPT !.call.practiceSettings = TRUE,
                        !.call.extraNumber = extra,
                        !.messages = SystemHistory(s)]
        s2 == PushMessage(startDeepgram(s1, FALSE), Msg("assistant", "greeting", <<>>, <<>>))
    IN Suspend([s2 EXCEPT !.timers.greetingTimer = TRUE], i, "calllog", "done")

\* a start handler that goes on with the call after a denied access check
startDeniedGoesOn(s, i, extra) ==
    startAllowed([s EXCEPT !.obs.accessDenied = TRUE], i, extra)

\* the rest of the start handler when the access check denies the call
startDenied(s, i, extra) ==
    LET forwardToNumber == resolveHandoffTargetNumber(extra, s.call.botPhoneNumber,
                               s.call.forwardedFromNumber, FALSE)
    IN IF forwardToNumber # Null /\ s.call.callSid
       THEN Suspend([s EXCEPT !.obs.transferRequests = @ + 1,
                              !.obs.transferTargets = @ \cup {forwardToNumber},
                              !.obs.accessDenied = TRUE],
                    i, "forward", "done")
       ELSE [s EXCEPT !.call.connection = IF @ = "open" THEN "closing" ELSE @,
                      !.obs.accessDenied = TRUE,
                      !.tasks = RemoveAt(@, i)]

\* checkPracticeAccess returns to the start handler
AccessDone(extraNumbers) ==
    \E i \in 1..Len(tasks), allowed \in BOOLEAN, extra \in extraNumbers :
        /\ TaskAt(i, "access")
        /\ LET s == [St EXCEPT !.obs.accessNumber = extra]
           IN Apply(IF allowed THEN startAllowed(s, i, extra) ELSE startDenied(s, i, extra))

\* a read that serves the cached row whatever the caller asked for
getPracticeSettingsCacheFirst(s, bypassCache, answer) ==
    IF s.practiceCache # Null
    THEN [settings |-> s.practiceCache, state |-> s]
    ELSE [settings |-> answer,
          state |-> IF answer = Null THEN s ELSE [s EXCEPT !.practiceCache = answer]]

\* getPracticeSettings(practiceId, {bypassCache}): answer is what the datastore
\* returns if it is asked, Null for an error or a missing row
getPracticeSettings(s, bypassCache, answer) ==
    IF ~bypassCache /\ s.practiceCache # Null
    THEN [settings |-> s.practiceCache, state |-> s]
    ELSE [settings |-> answer,
          state |-> IF answer = Null THEN s ELSE [s EXCEPT !.practiceCache = answer]]

isSubscriptionExpired(status) == status = "expired"

\* checkPracticeAccess returns to ensurePracticeSettings and the start handler
accessReturned(s, i, allowed, extra) ==
    IF allowed THEN startAllowed([s EXCEPT !.obs.accessNumber = extra], i, extra)
    ELSE startDenied([s EXCEPT !.obs.accessNumber = extra], i, extra)

\* checkPracticeAccess after getPracticeSettings returned
checkPracticeAccessSettings(s, i, settings) ==
    IF settings = Null THEN accessReturned(s, i, FALSE, Null)
    ELSE IF isSubscriptionExpired(settings.subscription_status)
    THEN accessReturned(s, i, FALSE, settings.extra_number)
    ELSE IF settings.calls_limit > 0
    THEN Suspend([s EXCEPT !.tasks[i].settings = settings], i, "callCount", "done")
    ELSE accessReturned(s, i, TRUE, settings.extra_number)

\* checkPracticeAccess after getMonthlyCallCount returned; count = -1 stands
\* for countError
checkPracticeAccessCount(s, i, count) ==
    IF count < 0 THEN accessReturned(s, i, FALSE, s.tasks[i].settings.extra_number)
    ELSE IF count >= s.tasks[i].settings.calls_limit
    THEN accessReturned(s, i, FALSE, s.tasks[i].settings.extra_number)
    ELSE accessReturned(s, i, TRUE, s.tasks[i].settings.extra_number)

\* the settings query of checkPracticeAccess returns
SettingsReadDone ==
    \E i \in 1..Len(tasks), ok \in BOOLEAN :
        /\ TaskAt(i, "access")
        /\ Apply(checkPracticeAccessSettings(
                     [getPracticeSettings(St, TRUE, IF ok THEN supabase.practice ELSE Null).state
                          EXCEPT !.obs.staleAtCheck =
                                     @ \/ (practiceCache # Null /\ practiceCache # supabase.practice)],
                     i,
                     getPracticeSettings(St, TRUE, IF ok THEN supabase.practice ELSE Null).settings))

\* the count query of checkPracticeAccess returns
CountReadDone ==
    \E i \in 1..Len(tasks), ok \in BOOLEAN :
        /\ TaskAt(i, "callCount")
        /\ Apply(checkPracticeAccessCount(St, i, IF ok THEN supabase.calls ELSE -1))

\* getPracticeSettings(practiceId) is called without bypassCache
CachedRead ==
    \E ok \in BOOLEAN :
        Apply(getPracticeSettings(St, FALSE, IF ok THEN supabase.practice ELSE Null).state)

\* the tenant's row or its call count changes in the datastore
DatastoreUpdate(rows) ==
    \E row \in rows \cup {Null}, calls \in 0..MaxCalls :
        /\ <<supabase.practice, supabase.calls>> # <<row, calls>>
        /\ Apply([St EXCEPT !.supabase.practice = row, !.supabase.calls = calls])

\* the access-denied forward returns: connection.close()
ForwardDone ==
    \E i \in 1..Len(tasks) :
        /\ TaskAt(i, "forward")
        /\ Apply([St EXCEPT !.call.connection = IF @ = "open" THEN "closing" ELSE @,
                            !.tasks = RemoveAt(@, i)])

\* createCallLog returns to the start handler, which records the greeting
CallLogDone(callLogs) ==
    \E i \in 1..Len(tasks), ok \in callLogs :
        /\ TaskAt(i, "calllog")
        /\ Apply(Run(Suspend([St EXCEPT !.call.callLogId = ok], i,
                              "recordTranscriptEntry", "st_after_rec"), i))

\* createTranscriptEntry returns to the worker of the transcript queue
TranscriptWriteDone ==
    \E i \in 1..Len(tasks), success \in BOOLEAN :
        /\ TaskAt(i, "createTranscriptEntry")
        /\ Apply(Run(transcriptWriteReturned(St, i, success), i))

\* the backoff sleep of the worker ends: the for loop goes to its next attempt
TranscriptSleepDone ==
    \E i \in 1..Len(tasks) :
        /\ TaskAt(i, "sleep")
        /\ Apply(Run(Goto([St EXCEPT !.tasks[i].attempt = @ + 1], i, "attempt"), i))

\* createTranscriptEntry returns
RecDone ==
    \E i \in 1..Len(tasks) :
        /\ TaskAt(i, "rec")
        /\ Apply(Run(Goto(St, i, tasks[i].after), i))

\* connection.send of speak: the media event leaves if the socket is open
sendMedia(s) ==
    IF s.call.connection = "open"
    THEN [s EXCEPT !.obs.mediaSentInactive = @ \/ ~s.call.callActive,
                   !.obs.mediaSentAfterAccept = @ \/ s.obs.handoffAccepted]
    ELSE s

\* generateTTS returns (or throws) inside speak
TtsDone ==
    \E i \in 1..Len(tasks), ok \in BOOLEAN :
        /\ TaskAt(i, "tts")
        /\ Apply(Run(Goto(IF ok THEN sendMedia(St) ELSE St, i, tasks[i].after), i))

ReplyContents == {NoContent, "clean", "marked", "intent"}
ReplyTools == {<<>>, <<"check_availability">>, <<"create_reservation">>}
\* chat.completions.create resolves with a message, with none, or rejects
ReplyKinds == {"msg", "nomsg", "throw"}
\* a tool returns success, returns a failure, or throws
ToolOutcomes == {"success", "failure", "throw"}
\* fetch settles: see fetchReturned
FetchOutcomes == {"ok", "client", "server", "other", "bodyError", "error"}

\* the completion request returns a message, returns no message, or throws
llmReturned(s, i, kind, content, tools) ==
    IF kind = "throw" THEN Goto(s, i, "llm_error")
    ELSE IF kind = "nomsg" THEN Goto(s, i, "done")
    ELSE LET s1 == PushMessage([s EXCEPT !.tasks[i].content = content, !.tasks[i].tools = tools,
                                         !.tasks[i].lastReplyHadTools = tools # <<>>],
                               Msg("assistant", content, <<>>, tools))
         IN IF s.tasks[i].forced
            THEN IF tools # <<>> THEN Suspend(s1, i, "tool", "done") ELSE Goto(s1, i, "done")
            ELSE IF content # NoContent THEN Suspend(s1, i, "speak", "ag_after_speak")
            ELSE Goto(s1, i, "ag_after_rec")

\* the model calls tools in at most limit requests of a turn; the counters of
\* the requests of a turn stop counting above MaxLlmCalls
LlmReplies(contents, toolSets, limit) ==
    \E i \in 1..Len(tasks), kind \in ReplyKinds,
       content \in contents, tools \in toolSets :
        /\ TaskAt(i, "llm")
        /\ kind # "msg" => (content = NoContent /\ tools = <<>>)
        /\ tools # <<>> => tasks[i].llmCalls < limit
        /\ Apply(Run(llmReturned(St, i, kind, content, tools), i))

LlmDone(contents, toolSets) == LlmReplies(contents, toolSets, MaxLlmCalls)

\* one tool of handleToolCalls returns: result pushed, next tool or the recursive call
\* createReservation starts notifyReservationCreatedWithRetry(reservationId)
\* without awaiting it; the notification runs up to its first fetch: the
\* activation gets the number of the notification; obs.notifications keeps, for
\* each notification, the fetches made, the last response and the result
notifyReservationCreatedWithRetry(s) ==
    IF ~s.call.notificationsConfigured THEN s
    ELSE [s EXCEPT !.tasks = Append(@, [NewTask("notify", "fetch", "exit")
                                           EXCEPT !.item = Len(s.obs.notifications) + 1]),
                   !.obs.notifications =
                       Append(@, [fetches |-> 1, last |-> "none", result |-> "running"])]

\* the notification leaves with its result
notificationReturns(s, i, outcome, result) ==
    Goto([s EXCEPT !.obs.notifications[s.tasks[i].item].last = outcome,
                   !.obs.notifications[s.tasks[i].item].result = result], i, "exit")

\* the end of one round of the for loop: break after the last attempt, else sleep
notificationRetries(s, i, outcome) ==
    IF s.tasks[i].attempt = Len(NOTIFICATION_RETRY_DELAYS_MS)
    THEN notificationReturns(s, i, outcome, "exhausted")
    ELSE Goto([s EXCEPT !.obs.notifications[s.tasks[i].item].last = outcome], i, "retryDelay")

\* a notification that sleeps and tries again after whatever went wrong
fetchReturnedRetriesAll(s, i, outcome) ==
    IF outcome = "ok" THEN notificationReturns(s, i, outcome, "success")
    ELSE notificationRetries(s, i, outcome)

\* the body of the for loop after fetch settled.  outcome: "ok" a 2xx response,
\* "client" a 4xx, "server" a 5xx and "other" any other response, each with a
\* readable body; "bodyError" a response that is not ok and whose body cannot
\* be read (response.text() rejects inside the try); "error" fetch rejects
fetchReturned(s, i, outcome) ==
    IF outcome = "ok" THEN notificationReturns(s, i, outcome, "success")
    ELSE IF outcome \in {"client", "other"} THEN notificationReturns(s, i, outcome, "failed")
    ELSE notificationRetries(s, i, outcome)

\* the row createReservation inserts for the arguments of the tool call, which
\* the session does not look into
RequestedReservation == [time |-> "requested", party_size |-> "requested"]

\* the call is to end after the reply whatever createReservation returned
toolReturnedEndsCall(s, i, outcome) ==
    IF outcome = "throw" THEN Goto(s, i, "llm_error")
    ELSE LET name == Head(s.tasks[i].tools)
             s1 == IF name = "create_reservation"
                   THEN [s EXCEPT !.callEndState.shouldHangupAfterAssistantReply = TRUE]
                   ELSE s
             s2 == PushMessage(s1, Msg("tool", outcome, <<>>, <<name>>))
             s3 == IF name = "check_availability" THEN markAvailabilityChecked(s2) ELSE s2
             s4 == [s3 EXCEPT !.tasks[i].tools = Tail(@)]
         IN IF s4.tasks[i].tools # <<>> THEN Suspend(s4, i, "tool", "done")
            ELSE Goto(s4, i, "processAgentTurn")

\* a tool that fails returns a result without success (a rejected date, an
\* error reported by the datastore); only an insert that succeeded leaves a row
toolReturned(s, i, outcome) ==
    IF outcome = "throw" THEN Goto(s, i, "llm_error")
    ELSE LET name == Head(s.tasks[i].tools)
             s1 == IF name = "create_reservation" /\ outcome = "success"
                   THEN [notifyReservationCreatedWithRetry(s)
                             EXCEPT !.callEndState.shouldHangupAfterAssistantReply = TRUE,
                                    !.supabase.reservations = Append(@, RequestedReservation),
                                    !.obs.reservationSucceeded = TRUE]
                   ELSE s
             s2 == PushMessage(s1, Msg("tool", outcome, <<>>, <<name>>))
             s3 == IF name = "check_availability" THEN markAvailabilityChecked(s2) ELSE s2
             s4 == [s3 EXCEPT !.tasks[i].tools = Tail(@)]
         IN IF s4.tasks[i].tools # <<>> THEN Suspend(s4, i, "tool", "done")
            ELSE Goto(s4, i, "processAgentTurn")

ToolNamesOfSession == {"check_availability", "create_reservation"}

\* the tool a turn awaits is one of names and returns with one of outcomes
ToolReturns(names, outcomes) ==
    \E i \in 1..Len(tasks), outcome \in outcomes :
        /\ TaskAt(i, "tool")
        /\ Head(tasks[i].tools) \in names
        /\ Apply(Run(toolReturned(St, i, outcome), i))

ToolDone == ToolReturns(ToolNamesOfSession, ToolOutcomes)

\* fetch of notifyReservationCreatedWithRetry settles
FetchDone ==
    \E i \in 1..Len(tasks), outcome \in FetchOutcomes :
        /\ TaskAt(i, "fetch")
        /\ Apply(Run(fetchReturned(St, i, outcome), i))

\* sleep(NOTIFICATION_RETRY_DELAYS_MS[attempt]) ends: the next round of the loop
RetryDelayDone ==
    \E i \in 1..Len(tasks) :
        /\ TaskAt(i, "retryDelay")
        /\ Apply(Run(Goto([St EXCEPT !.tasks[i].attempt = @ + 1,
                                     !.obs.notifications[tasks[i].item].fetches = @ + 1],
                           i, "fetch"), i))

\* a handoff that asks the telephony collaborator again when it refuses
transferReturnedRetries(s, i, ok) ==
    IF ok THEN Goto([s EXCEPT !.obs.handoffAccepted = TRUE], i, "done")
    ELSE Suspend([s EXCEPT !.obs.transferRequests = @ + 1], i, "transfer", "done")

\* a handoff that gives the in-progress flag back after an accepted transfer too
transferReturnedReleasesFlag(s, i, ok) ==
    IF ok THEN Goto([s EXCEPT !.obs.handoffAccepted = TRUE,
                              !.handoffState.inProgress = FALSE], i, "done")
    ELSE Suspend(PushMessage(s, Msg("assistant", "fallback", <<>>, <<>>)), i, "speak", "ho_fb_after_speak")

\* transferCallToNumber returns inside initiateHandoff
transferReturned(s, i, ok) ==
    IF ok THEN Goto([s EXCEPT !.obs.handoffAccepted = TRUE], i, "done")
    ELSE Suspend(PushMessage(s, Msg("assistant", "fallback", <<>>, <<>>)), i, "speak", "ho_fb_after_speak")

TransferDone ==
    \E i \in 1..Len(tasks), ok \in BOOLEAN :
        /\ TaskAt(i, "transfer")
        /\ Apply(Run(transferReturned(St, i, ok), i))

\* the greeting timer fires (setTimeout of the start handler)
GreetingTimerFires ==
    /\ timers.greetingTimer
    /\ LET s1 == [St EXCEPT !.timers.greetingTimer = FALSE]
       IN IF ~call.callActive \/ handoffState.inProgress
          THEN Apply(s1)
          ELSE LET s2 == [s1 EXCEPT !.tasks = Append(@, NewTask("speak", "speak", "done"))]
               IN Apply(Run(s2, Len(s2.tasks)))

\* a timer callback that hangs up whatever the session is doing
hangupTimerCallbackUnguarded(s) ==
    LET s1 == [s EXCEPT !.timers.hangupTimer = FALSE]
    IN IF ~s1.call.callSid
       THEN [s1 EXCEPT !.call.connection = IF @ = "open" THEN "closing" ELSE @]
       ELSE [s1 EXCEPT !.obs.hangupRequests = @ + 1,
                       !.tasks = Append(@, NewTask("hangup", "hangupCall", "done"))]

\* the timer of scheduleReservationCompletionHangup fires
hangupTimerCallback(s) ==
    LET s1 == [s EXCEPT !.timers.hangupTimer = FALSE]
    IN IF ~s1.call.callActive \/ s1.handoffState.inProgress THEN s1
       ELSE IF ~s1.call.callSid
       THEN [s1 EXCEPT !.call.connection = IF @ = "open" THEN "closing" ELSE @]
       ELSE [s1 EXCEPT !.obs.hangupRequests = @ + 1,
                       !.tasks = Append(@, NewTask("hangup", "hangupCall", "done"))]

HangupTimerFires ==
    /\ timers.hangupTimer
    /\ Apply(hangupTimerCallback(St))

\* hangupCall returns
HangupDone ==
    \E i \in 1..Len(tasks), ok \in BOOLEAN :
        /\ TaskAt(i, "hangupCall")
        /\ Apply([St EXCEPT !.callEndState.hangupScheduled = IF ok THEN @ ELSE FALSE,
                            !.tasks = RemoveAt(@, i)])

\* time passes while the coalescing timer is pending, never beyond its due time
Tick(step) ==
    /\ firstTurnBuffer # Null
    /\ firstTurnBuffer.elapsed < firstTurnBuffer.timerDue
    /\ Apply([St EXCEPT !.firstTurnBuffer.elapsed = Min(@ + step, firstTurnBuffer.timerDue)])

\* the coalescing timer fires
FirstTurnTimerFires ==
    /\ firstTurnBuffer # Null
    /\ firstTurnBuffer.elapsed >= firstTurnBuffer.timerDue
    /\ Apply(flushFirstTurnBuffer(St))

\* LiveTranscriptionEvents.Open
DgOpen ==
    \E k \in 1..Len(dg.conns) :
        /\ dg.conns[k].state = "connecting"
        /\ Apply([St EXCEPT !.dg.conns[k].state = "open", !.dg.deepgramConnected = TRUE])

\* an Error handler that retries whatever the error says
dgErrorHandlerRetriesAny(s, k, isHandshakeError) ==
    LET s0 == [s EXCEPT !.dg.conns[k].state = "closed"]
    IN IF /\ ~s0.dg.deepgramConnected
          /\ ~s0.dg.conns[k].useFallback
          /\ ~s0.dg.deepgramFallbackAttempted
       THEN startDeepgram(dgFinish([s0 EXCEPT !.dg.deepgramFallbackAttempted = TRUE]), TRUE)
       ELSE IF ~s0.dg.deepgramConnected /\ ~s0.dg.deepgramFailureHandled /\ s0.call.callActive
       THEN LET s1 == [s0 EXCEPT !.dg.deepgramFailureHandled = TRUE,
                                 !.tasks = Append(@, NewTask("dgerr", "initiateHandoff", "done"))]
            IN Run(s1, Len(s1.tasks))
       ELSE s0

\* the LiveTranscriptionEvents.Error handler of connection k
dgErrorHandler(s, k, isHandshakeError) ==
    LET s0 == [s EXCEPT !.dg.conns[k].state = "closed"]
    IN IF /\ ~s0.dg.deepgramConnected
          /\ isHandshakeError
          /\ ~s0.dg.conns[k].useFallback
          /\ ~s0.dg.deepgramFallbackAttempted
       THEN startDeepgram(dgFinish([s0 EXCEPT !.dg.deepgramFallbackAttempted = TRUE]), TRUE)
       ELSE IF ~s0.dg.deepgramConnected /\ ~s0.dg.deepgramFailureHandled /\ s0.call.callActive
       THEN LET s1 == [s0 EXCEPT !.dg.deepgramFailureHandled = TRUE,
                                 !.tasks = Append(@, NewTask("dgerr", "initiateHandoff", "done"))]
            IN Run(s1, Len(s1.tasks))
       ELSE s0

\* an error of a connection that has not opened
DgError ==
    \E k \in 1..Len(dg.conns), isHandshakeError \in BOOLEAN :
        /\ dg.conns[k].state = "connecting"
        /\ LET firstAttempt == /\ ~dg.conns[k].useFallback
                               /\ ~dg.deepgramFallbackAttempted
                               /\ ~dg.deepgramConnected
               s == [St EXCEPT !.obs.firstAttemptError =
                                   IF firstAttempt
                                   THEN IF isHandshakeError THEN "handshake" ELSE "other"
                                   ELSE @]
           IN Apply(dgErrorHandler(s, k, isHandshakeError))

\* LiveTranscriptionEvents.Close: the socket of connection k is gone
DgClose ==
    \E k \in 1..Len(dg.conns) :
        /\ dg.conns[k].state \in {"open", "finishing"}
        /\ Apply([St EXCEPT !.dg.conns[k].state = "closed"])

\* dg.getReadyState() of the connection the variable dg refers to: 0 connecting,
\* 1 open (also after finish(), until the socket closes), 3 closed
getReadyState(s) ==
    LET state == s.dg.conns[Len(s.dg.conns)].state
    IN IF state = "connecting" THEN 0
       ELSE IF state \in {"open", "finishing"} THEN 1
       ELSE 3

\* a media branch that sends without asking for the ready state
mediaHandlerUnchecked(s, payload) ==
    IF s.dg.conns # <<>> /\ payload
    THEN [s EXCEPT !.obs.dgSent = Append(@, s.obs.frames)]
    ELSE s

\* the media branch of the message handler; s.obs.frames numbers the frame
mediaHandler(s, payload) ==
    IF s.dg.conns # <<>> /\ getReadyState(s) = 1 /\ payload
    THEN [s EXCEPT !.obs.dgSent = Append(@, s.obs.frames)]
    ELSE s

\* connection.on("message") with event "media"; payload: present or empty
Media ==
    \E payload \in BOOLEAN :
        /\ call.connection = "open"
        /\ obs.frames < MaxFrames
        /\ Apply(mediaHandler([St EXCEPT !.obs.frames = @ + 1], payload))

DgDelivers == dg.conns # <<>> /\ dg.conns[Len(dg.conns)].state \in {"open", "finishing"}

\* the Transcript handler for a non-empty interim result
InterimTranscript ==
    /\ DgDelivers
    /\ ~handoffState.inProgress
    /\ timers.greetingTimer
    /\ Apply([St EXCEPT !.timers.greetingTimer = FALSE])

\* the Transcript handler for a non-empty final result
transcriptHandler(s, cleanText) ==
    IF s.handoffState.inProgress THEN s
    ELSE handleIncomingFinalTranscript([s EXCEPT !.timers.greetingTimer = FALSE], cleanText)

FinalTranscript(fragments, limit) ==
    \E f \in fragments :
        /\ DgDelivers
        /\ obs.transcripts < limit
        /\ ~handoffState.inProgress
        /\ Apply(transcriptHandler(
                     [St EXCEPT !.obs.transcripts = @ + 1,
                                !.obs.lastFinal = IF call.hasProcessedFirstUserTurn THEN f ELSE @,
                                !.obs.fragments = IF call.hasProcessedFirstUserTurn \/ ~call.callActive
                                                  THEN @ ELSE Append(@, f)], f))

PendingKinds == {"turns", "firstTurn", "greeting", "hangup"}

\* what the session has pending that a stop or close event has to cancel
pendingWork(s) ==
    {w \in PendingKinds :
        \/ w = "turns" /\ s.pendingTurns # <<>>
        \/ w = "firstTurn" /\ s.firstTurnBuffer # Null
        \/ w = "greeting" /\ s.timers.greetingTimer
        \/ w = "hangup" /\ s.timers.hangupTimer}

\* a stop that leaves the queued turns where they are
endSessionKeepsQueue(s) ==
    LET s1 == [clearFirstTurnBuffer(s) EXCEPT !.call.callActive = FALSE,
                                              !.timers.greetingTimer = FALSE,
                                              !.timers.hangupTimer = FALSE,
                                              !.obs.cancelled = @ \cup pendingWork(s)]
    IN dgFinish(s1)

\* what the stop event and the close event both do
endSession(s) ==
    LET s1 == [clearFirstTurnBuffer(s) EXCEPT !.call.callActive = FALSE,
                                              !.timers.greetingTimer = FALSE,
                                              !.timers.hangupTimer = FALSE,
                                              !.pendingTurns = <<>>,
                                              !.obs.cancelled = @ \cup pendingWork(s)]
    IN dgFinish(s1)

\* connection.on("message") with event "stop"
Stop ==
    /\ call.connection = "open"
    /\ call.callActive
    /\ Apply(endSession(St))

\* connection.on("close")
Close ==
    /\ call.connection \in {"open", "closing"}
    /\ Apply([endSession(St) EXCEPT !.call.connection = "closed"])

(***************************************************************************)
(* Inputs and specifications.                                              *)
(***************************************************************************)
PhoneA == <<"+", "4", "9", "1", "1", "1", "1">>
PhoneASpaced == <<"4", "9", " ", "1", "1", "-", "1", "1">>
PhoneATel == <<"tel:", "+", "4", "9", "1", "1", "1", "1">>
PhoneB == <<"+", "4", "9", "2", "2", "2", "2">>
PhoneShort == <<"1", "2", "4">>
PhoneInputs == {Null, PhoneA, PhoneASpaced, PhoneATel, PhoneB, PhoneShort}

\* the state after construction; allowSameNumber is ALLOW_SAME_NUMBER_HANDOFF,
\* fixed by the routing mode the process was started with
SessionInit(routingModes, notificationModes, histories) ==
    /\ \E allowSameNumber \in routingModes, notificationsConfigured \in notificationModes :
           call = [InitState.call EXCEPT !.allowSameNumber = allowSameNumber,
                                         !.notificationsConfigured = notificationsConfigured]
    /\ handoffState = InitState.handoffState
    /\ callEndState = InitState.callEndState
    /\ pendingTurns = InitState.pendingTurns
    /\ firstTurnBuffer = InitState.firstTurnBuffer
    /\ messages \in histories
    /\ dg = InitState.dg
    /\ timers = InitState.timers
    /\ tasks = InitState.tasks
    /\ transcriptQueue = InitState.transcriptQueue
    /\ practiceCache = InitState.practiceCache
    /\ obs = InitState.obs

InitWith(routingModes, notificationModes, histories) ==
    /\ SessionInit(routingModes, notificationModes, histories)
    /\ supabase = InitState.supabase
    /\ evaluation = InitState.evaluation

\* no session yet; one call of a pure function with its arguments is to be evaluated
InitEvaluating(calls) ==
    /\ SessionInit({FALSE}, {FALSE}, {EmptyHistory})
    /\ supabase = InitState.supabase
    /\ evaluation \in calls

\* the default routing mode, separate_number
Init == InitWith({FALSE}, {FALSE}, {EmptyHistory})

\* both routing modes, separate_number and studio_same_number
InitTarget == InitWith(BOOLEAN, {FALSE}, {EmptyHistory})

\* APP_API_BASE_URL and INTERNAL_API_SECRET are set: reservations are notified
InitNotify == InitWith({FALSE}, {TRUE}, {EmptyHistory})

\* the events every specification shares
SessionEvents(callLogs) ==
    \/ CallLogDone(callLogs)
    \/ TtsDone
    \/ GreetingTimerFires
    \/ Tick(TickMs)
    \/ FirstTurnTimerFires
    \/ DgOpen
    \/ DgError
    \/ InterimTranscript
    \/ Stop
    \/ Close

\* The dialogue: a caller who greets, agrees or declines, an assistant whose
\* replies may carry the marker and may call the availability tool.
DialogueFragments == {<<"hallo">>, <<"ja">>, <<"nein">>}
DialogueContents == {"clean", "marked"}
AvailabilityTools == {<<>>, <<"check_availability">>}
ReservationTools == {<<>>, <<"create_reservation">>}

Next ==
    \/ Start({TRUE}, {TRUE}, {PhoneB}, {Null})
    \/ AccessDone({PhoneA})
    \/ LlmDone(DialogueContents, AvailabilityTools)
    \/ ToolDone
    \/ TransferDone
    \/ FinalTranscript(DialogueFragments, MaxTranscripts)
    \/ SessionEvents({FALSE})

Spec == Init /\ [][Next]_vars

\* The handoff: a caller who asks for a person, practices with and without a
\* usable number, legacy pipeline with transcript records.
HandoffFragments == {<<"hallo">>, <<"mitarbeiter">>}
HandoffNumbers == {PhoneA, PhoneB}

NextHandoff ==
    \/ Start(BOOLEAN, {FALSE}, {PhoneB}, {Null})
    \/ AccessDone(HandoffNumbers)
    \/ ForwardDone
    \/ RecDone
    \/ LlmDone({"clean"}, {<<>>})
    \/ TransferDone
    \/ FinalTranscript(HandoffFragments, MaxTranscripts)
    \/ SessionEvents(BOOLEAN)

SpecHandoff == Init /\ [][NextHandoff]_vars

\* The queue: a caller who keeps talking while the first turn is at the model.
QueueFragments == {<<"hallo">>, <<"ja">>}

NextQueue ==
    \/ Start({TRUE}, {TRUE}, {PhoneB}, {Null})
    \/ AccessDone({PhoneA})
    \/ LlmDone({"clean"}, {<<>>})
    \/ FinalTranscript(QueueFragments, MaxQueueTranscripts)
    \/ SessionEvents({FALSE})

SpecQueue == Init /\ [][NextQueue]_vars

\* The first turn: fragments with and without inner runs of blanks.
CoalesceFragments == {<<"hallo">>, <<"tisch", SP, SP, "morgen">>}

NextCoalesce ==
    \/ Start({TRUE}, {TRUE}, {PhoneB}, {Null})
    \/ AccessDone({PhoneA})
    \/ LlmDone({"clean"}, {<<>>})
    \/ FinalTranscript(CoalesceFragments, MaxFragments)
    \/ SessionEvents({FALSE})

SpecCoalesce == Init /\ [][NextCoalesce]_vars

\* The transfer target: practices whose number is missing, too short, written
\* in several ways, equal to the bot's number or to the forwarding source; a
\* caller who asks for a person; calls that are denied.
TargetFragments == {<<"mitarbeiter">>}
TargetBotNumbers == {Null, PhoneA, PhoneB}
TargetForwardNumbers == {Null, PhoneASpaced}

NextTarget ==
    \/ Start({TRUE}, {TRUE}, TargetBotNumbers, TargetForwardNumbers)
    \/ AccessDone(PhoneInputs)
    \/ ForwardDone
    \/ TransferDone
    \/ FinalTranscript(TargetFragments, MaxTranscripts)
    \/ SessionEvents({FALSE})

SpecTarget == InitTarget /\ [][NextTarget]_vars

\* The bridge: media frames that arrive before, while and after the recognition
\* connection is open, in both pipeline modes; a caller who says one thing.
BridgeFragments == {<<"hallo">>}

NextBridge ==
    \/ Start({TRUE}, BOOLEAN, {PhoneB}, {Null})
    \/ AccessDone({PhoneA})
    \/ RecDone
    \/ LlmDone({"clean"}, {<<>>})
    \/ TransferDone
    \/ FinalTranscript(BridgeFragments, 1)
    \/ Media
    \/ DgClose
    \/ SessionEvents(BOOLEAN)

SpecBridge == Init /\ [][NextBridge]_vars

\* The agent: a caller who greets or asks for a person; a model that answers, books a table,
\* stays silent or fails; tools that succeed, fail or throw.
AgentFragments == {<<"hallo">>, <<"mitarbeiter">>}
AgentContents == {NoContent, "clean"}

NextAgent ==
    \/ Start({TRUE}, {TRUE}, {PhoneB}, {Null})
    \/ AccessDone({PhoneA})
    \/ LlmDone(AgentContents, ReservationTools)
    \/ ToolDone
    \/ HangupTimerFires
    \/ HangupDone
    \/ FinalTranscript(AgentFragments, MaxAgentTranscripts)
    \/ SessionEvents({FALSE})

SpecAgent == Init /\ [][NextAgent]_vars

\* The availability check: a caller who greets or names date, time and party
\* size; a model that answers, announces a check or calls the tool; both
\* pipeline modes.
ForcedFragments ==
    {<<"hallo">>, <<"morgen", SP, "19uhr", SP, "4personen">>, <<"tisch", SP, "pruefen">>}

ForcedContents == {NoContent, "clean", "intent"}

NextForced ==
    \/ Start({TRUE}, BOOLEAN, {PhoneB}, {Null})
    \/ AccessDone({PhoneA})
    \/ LlmDone(ForcedContents, AvailabilityTools)
    \/ ToolDone
    \/ FinalTranscript(ForcedFragments, MaxAgentTranscripts)
    \/ SessionEvents({FALSE})

SpecForced == Init /\ [][NextForced]_vars

\* The history: the list of messages is recorded; a caller who greets or asks
\* for a person, a model that answers, announces a check or calls the tool,
\* tools that succeed, fail or throw, transfers that fail; both pipeline modes.
HistoryFragments == {<<"hallo">>, <<"mitarbeiter">>}
HistoryContents == {"clean", "intent"}

InitHistory == InitWith({FALSE}, {FALSE}, {RecordedHistory})

NextHistory ==
    \/ Start({TRUE}, BOOLEAN, {PhoneB}, {Null})
    \/ AccessDone({PhoneA})
    \/ LlmDone(HistoryContents, AvailabilityTools)
    \/ ToolDone
    \/ TransferDone
    \/ FinalTranscript(HistoryFragments, MaxHistoryTranscripts)
    \/ CallLogDone({FALSE})
    \/ TtsDone
    \/ Tick(TickMs)
    \/ FirstTurnTimerFires
    \/ DgOpen
    \/ Stop

SpecHistory == InitHistory /\ [][NextHistory]_vars

\* The reservation: the list of messages is recorded; a caller who greets, a
\* model that answers or says nothing and calls create_reservation or not, an
\* insert that succeeds, is refused by the datastore or throws; the
\* auto-hangup; both pipeline modes.
ReservationContents == {NoContent, "clean"}

NextReservation ==
    \/ Start({TRUE}, BOOLEAN, {PhoneB}, {Null})
    \/ AccessDone({PhoneA})
    \/ LlmDone(ReservationContents, ReservationTools)
    \/ ToolDone
    \/ FinalTranscript({<<"hallo">>}, MaxHistoryTranscripts)
    \/ CallLogDone({FALSE})
    \/ TtsDone
    \/ Tick(TickMs)
    \/ FirstTurnTimerFires
    \/ DgOpen
    \/ HangupTimerFires
    \/ HangupDone
    \/ Stop

SpecReservation == InitHistory /\ [][NextReservation]_vars

\* The recursion: one user turn in a call of either pipeline, answered by a
\* model that may call check_availability in every reply, however many
\* requests the turn has made; tools that succeed, fail or throw.
RecursionContents == {NoContent, "clean"}

\* the model answers the request of a turn
LlmAnswers == LlmReplies(RecursionContents, AvailabilityTools, MaxLlmCalls + 2)

NextRecursion ==
    \/ Start({TRUE}, BOOLEAN, {PhoneB}, {Null})
    \/ AccessDone({PhoneA})
    \/ CallLogDone({FALSE})
    \/ DgOpen
    \/ FinalTranscript({<<"hallo">>}, 1)
    \/ Tick(TickMs)
    \/ FirstTurnTimerFires
    \/ LlmAnswers
    \/ ToolDone
    \/ TtsDone

SpecRecursion == Init /\ [][NextRecursion]_vars

\* no task awaits something of the kind
NoneAwaits(pc) == \A i \in 1..Len(tasks) : tasks[i].pc # pc

\* every tool returns; no request to the model and no synthesis stays
\* unanswered for ever (the clients have timeouts); the call has no log, so no
\* transcript entry is awaited
SpecRecursionFair ==
    /\ SpecRecursion
    /\ WF_vars(ToolDone)
    /\ []<>NoneAwaits("llm") /\ []<>NoneAwaits("tts")

(***************************************************************************)
(* trimMessagesForLLM                                                      *)
(***************************************************************************)
\* indexed.filter(role ...): the indexes of the messages with one of the roles
IndexesWithRole(history, roles) == {k \in 1..Len(history) : history[k].role \in roles}

\* slice(0, n) of an ascending list of indexes
sliceFromStart(indexes, n) == {k \in indexes : Cardinality({j \in indexes : j < k}) < n}

\* slice(-n) of an ascending list of indexes; slice(-0) is slice(0), the whole list
sliceFromEnd(indexes, n) ==
    IF n = 0 THEN indexes
    ELSE {k \in indexes : Cardinality({j \in indexes : j > k}) < n}

\* indexed.filter(selected).map(message): the messages at the indexes, in the list's order
MessagesAt(history, indexes) ==
    LET Upto[k \in 0..Len(history)] ==
            IF k = 0 THEN <<>>
            ELSE IF k \in indexes THEN Append(Upto[k - 1], history[k]) ELSE Upto[k - 1]
    IN Upto[Len(history)]

trimMessagesForLLM(history, maxDialogMessages, maxToolMessages) ==
    IF history = <<>> THEN <<>>
    ELSE LET selectedDialog ==
                 sliceFromEnd((1..Len(history)) \ IndexesWithRole(history, {"system", "tool"}),
                              maxDialogMessages)
             selectedTools == sliceFromEnd(IndexesWithRole(history, {"tool"}), maxToolMessages)
         IN MessagesAt(history, IndexesWithRole(history, {"system"}))
                \o MessagesAt(history, selectedDialog \cup selectedTools)

\* trimMessagesForLLM returns
TrimReturns ==
    /\ evaluation.fn = "trimMessagesForLLM"
    /\ ~evaluation.returned
    /\ Apply([St EXCEPT !.evaluation.returned = TRUE,
                        !.evaluation.result =
                            trimMessagesForLLM(evaluation.history, evaluation.maxDialogMessages,
                                               evaluation.maxToolMessages)])

\* The histories of a call: the system message, then user, assistant and tool
\* messages in any order; content numbers the messages.  The limits are the
\* positive integers parsePositiveInt lets through.
NonSystemRoles == {"user", "assistant", "tool"}
TrimHistories ==
    {[k \in 1..(Len(roles) + 1) |->
         IF k = 1 THEN [role |-> "system", content |-> 1]
         ELSE [role |-> roles[k - 1], content |-> k]] :
       roles \in UNION {[1..n -> NonSystemRoles] : n \in 0..MaxTrimmedHistory}}
TrimCalls ==
    {[fn |-> "trimMessagesForLLM", history |-> h, maxDialogMessages |-> n,
      maxToolMessages |-> m, returned |-> FALSE, result |-> <<>>] :
       h \in TrimHistories, n \in 1..MaxHistoryLimit, m \in 1..MaxHistoryLimit}

InitTrim == InitEvaluating(TrimCalls)
NextTrim == TrimReturns
SpecTrim == InitTrim /\ [][NextTrim]_vars

(***************************************************************************)
(* computePeakOccupancy and the decision of checkAvailability.  A time of  *)
(* day is the pair of numbers its text holds; parseTimeToMinutes rejects   *)
(* hours above 23 and minutes above 59.                                    *)
(***************************************************************************)
TimeOfDay(hours, minutes) == [hours |-> hours, minutes |-> minutes]

\* the null parseTimeToMinutes returns for a text that is no time of day
NoMinutes == 0 - 1

parseTimeToMinutes(value) ==
    IF value.hours > 23 \/ value.minutes > 59 THEN NoMinutes
    ELSE value.hours * 60 + value.minutes

\* addOverlapInterval: the part of [start, end) inside the requested interval
addOverlapInterval(events, start, end, size, requestedStart, requestedEnd) ==
    IF Max(start, requestedStart) >= Min(end, requestedEnd) THEN events
    ELSE events \o <<[time |-> Max(start, requestedStart), delta |-> size],
                     [time |-> Min(end, requestedEnd), delta |-> 0 - size]>>

\* the body of the loop over the reservations
addReservation(events, reservation, resStart, requestedStart) ==
    IF resStart = NoMinutes \/ reservation.party_size <= 0 THEN events
    ELSE addOverlapInterval(events, resStart, resStart + RESERVATION_DURATION_MINUTES,
                            reservation.party_size, requestedStart,
                            requestedStart + RESERVATION_DURATION_MINUTES)

\* a comparator that puts starts before ends at the same time
eventBeforeStartsFirst(a, b) == IF a.time # b.time THEN a.time < b.time ELSE a.delta > b.delta

\* the comparator of events.sort: by time, ends before starts
eventBefore(a, b) == IF a.time # b.time THEN a.time < b.time ELSE a.delta < b.delta

insertEvent(sorted, e) ==
    LET before == Cardinality({k \in 1..Len(sorted) : ~eventBefore(e, sorted[k])})
    IN SubSeq(sorted, 1, before) \o <<e>> \o SubSeq(sorted, before + 1, Len(sorted))

sortEvents(events) ==
    LET Sorted[k \in 0..Len(events)] ==
            IF k = 0 THEN <<>> ELSE insertEvent(Sorted[k - 1], events[k])
    IN Sorted[Len(events)]

\* the sweep over the sorted events: the running sum and its peak
sweepEvents(events) ==
    LET After[k \in 0..Len(events)] ==
            IF k = 0 THEN [current |-> 0, peak |-> 0]
            ELSE [current |-> After[k - 1].current + events[k].delta,
                  peak |-> Max(After[k - 1].peak, After[k - 1].current + events[k].delta)]
    IN After[Len(events)].peak

\* the sum of the reservations at exactly the requested time, and the candidate
computePeakOccupancyNaive(reservations, requestedStart, partySize) ==
    LET Sum[k \in 0..Len(reservations)] ==
            IF k = 0 THEN partySize
            ELSE IF parseTimeToMinutes(reservations[k].time) = requestedStart
                 THEN Sum[k - 1] + reservations[k].party_size ELSE Sum[k - 1]
    IN Sum[Len(reservations)]

computePeakOccupancy(reservations, requestedStart, partySize) ==
    LET Events[k \in 0..Len(reservations)] ==
            IF k = 0 THEN <<>>
            ELSE addReservation(Events[k - 1], reservations[k],
                                parseTimeToMinutes(reservations[k].time), requestedStart)
        events == IF partySize > 0
                  THEN addOverlapInterval(Events[Len(reservations)], requestedStart,
                                          requestedStart + RESERVATION_DURATION_MINUTES,
                                          partySize, requestedStart,
                                          requestedStart + RESERVATION_DURATION_MINUTES)
                  ELSE Events[Len(reservations)]
    IN sweepEvents(sortEvents(events))

\* a decision with the comparison turned around
availabilityResultFlipped(peakOccupancy, maxCapacity) ==
    [available |-> peakOccupancy >= maxCapacity, remaining |-> maxCapacity - peakOccupancy]

\* checkAvailability after the reservations of the date were read
availabilityResult(peakOccupancy, maxCapacity) ==
    [available |-> peakOccupancy <= maxCapacity, remaining |-> maxCapacity - peakOccupancy]

\* checkAvailability from the answer of the query to its return
availabilityReturned(e, peakOccupancy) ==
    [e EXCEPT !.returned = TRUE,
              !.peakOccupancy = peakOccupancy,
              !.result = availabilityResult(peakOccupancy, e.maxCapacity)]

\* the reservations are read and checkAvailability returns
AvailabilityReturns ==
    /\ evaluation.fn = "checkAvailability"
    /\ ~evaluation.returned
    /\ Apply([St EXCEPT !.evaluation =
                 availabilityReturned(evaluation,
                     computePeakOccupancy(evaluation.data, parseTimeToMinutes(evaluation.time),
                                          evaluation.partySize))])

\* The confirmed reservations of one evening, among them one whose time does
\* not parse and one for nobody; requests at 19:00 and 19:30.
ReservationRows ==
    {[time |-> TimeOfDay(18, 30), party_size |-> 2],
     [time |-> TimeOfDay(18, 30), party_size |-> 10],
     [time |-> TimeOfDay(19, 0), party_size |-> 2],
     [time |-> TimeOfDay(19, 0), party_size |-> 10],
     [time |-> TimeOfDay(19, 30), party_size |-> 2],
     [time |-> TimeOfDay(19, 30), party_size |-> 10],
     [time |-> TimeOfDay(20, 30), party_size |-> 10],
     [time |-> TimeOfDay(25, 0), party_size |-> 10],
     [time |-> TimeOfDay(19, 0), party_size |-> 0]}
ReservationLists == UNION {[1..n -> ReservationRows] : n \in 0..MaxReservations}
RequestedTimes == {TimeOfDay(19, 0), TimeOfDay(19, 30)}
RequestedPartySizes == {0, 1, 8, 9}
Capacities == {10, 20}
AvailabilityCalls ==
    {[fn |-> "checkAvailability", data |-> d, time |-> rt, partySize |-> ps,
      maxCapacity |-> c, returned |-> FALSE, peakOccupancy |-> 0,
      result |-> [available |-> FALSE, remaining |-> 0]] :
       d \in ReservationLists, rt \in RequestedTimes, ps \in RequestedPartySizes,
       c \in Capacities}

InitAvailability == InitEvaluating(AvailabilityCalls)
NextAvailability == AvailabilityReturns
SpecAvailability == InitAvailability /\ [][NextAvailability]_vars

(***************************************************************************)
(* Dates.  A Date is the number of its day, counted from 2026-01-01 = 1    *)
(* (2026 and 2027 have 365 days).  The text of a date is either of the     *)
(* form YYYY-MM-DD, given by its three numbers, or some other text.        *)
(***************************************************************************)
IsoText(year, month, day) == [iso |-> TRUE, year |-> year, month |-> month, day |-> day]
OtherText(text) == [iso |-> FALSE, text |-> text]

\* the days of the year before each month
DaysBeforeMonth == <<0, 31, 59, 90, 120, 151, 181, 212, 243, 273, 304, 334>>

\* the null of the date functions
NoDate == 0 - 1

\* new Date(year, month - 1, day): a day beyond the end of the month runs on
\* into the next month
newDate(year, month, day) == (year - 2026) * 365 + DaysBeforeMonth[month] + day

\* Date.prototype.getDay: 0 is Sunday; 2026-01-01 is a Thursday
getDay(date) == (date + 3) % 7

parseIsoDate(dateStr) ==
    IF ~dateStr.iso THEN NoDate ELSE newDate(dateStr.year, dateStr.month, dateStr.day)

\* date.toLocaleDateString("sv-SE"): YYYY-MM-DD of the day
formatDateOf(year, dayOfYear) ==
    LET month == CHOOSE m \in 1..12 :
                     /\ DaysBeforeMonth[m] < dayOfYear
                     /\ m < 12 => dayOfYear <= DaysBeforeMonth[m + 1]
    IN IsoText(year, month, dayOfYear - DaysBeforeMonth[month])

formatDate(date) ==
    formatDateOf(2026 + ((date - 1) \div 365), ((date - 1) % 365) + 1)

WEEKDAY_MAP ==
    [sonntag |-> 0, montag |-> 1, dienstag |-> 2, mittwoch |-> 3, donnerstag |-> 4,
     freitag |-> 5, samstag |-> 6]

\* the null of getWeekdayFromText
NoWeekday == 0 - 1

\* lower.match(/\b(sonntag|...|samstag)\b/): the first weekday name of the text
getWeekdayFromText(text) ==
    IF \E k \in 1..Len(text) : text[k] \in DOMAIN WEEKDAY_MAP
    THEN WEEKDAY_MAP[text[CHOOSE k \in 1..Len(text) :
                              /\ text[k] \in DOMAIN WEEKDAY_MAP
                              /\ \A j \in 1..(k - 1) : text[j] \notin DOMAIN WEEKDAY_MAP]]
    ELSE NoWeekday

weekdayDelta(delta, allowToday) == IF delta = 0 /\ ~allowToday THEN 7 ELSE delta

getNextWeekdayDate(targetWeekday, referenceDate, allowToday) ==
    referenceDate + weekdayDelta((targetWeekday - getDay(referenceDate) + 7) % 7, allowToday)

\* resolveWeekdayDate from the parsed date on
resolveParsedDate(dateStr, parsedDate, targetWeekday, today) ==
    IF parsedDate = NoDate THEN dateStr
    ELSE IF getDay(parsedDate) = targetWeekday
    THEN IF parsedDate = today
         THEN formatDate(getNextWeekdayDate(targetWeekday, today, FALSE))
         ELSE dateStr
    ELSE formatDate(getNextWeekdayDate(targetWeekday, parsedDate, FALSE))

\* a resolveWeekdayDate that writes every date it could parse anew
resolveWeekdayDateReformats(dateStr, userText, today) ==
    IF parseIsoDate(dateStr) = NoDate THEN dateStr
    ELSE IF getWeekdayFromText(userText) = NoWeekday THEN formatDate(parseIsoDate(dateStr))
    ELSE resolveParsedDate(dateStr, parseIsoDate(dateStr), getWeekdayFromText(userText), today)

\* today is new Date() of the moment of the call, as a day
resolveWeekdayDate(dateStr, userText, today) ==
    IF getWeekdayFromText(userText) = NoWeekday THEN dateStr
    ELSE resolveParsedDate(dateStr, parseIsoDate(dateStr), getWeekdayFromText(userText), today)

\* resolveWeekdayDate returns; it is applied to the candidate and then once
\* more to its own result
ResolveReturns ==
    /\ evaluation.fn = "resolveWeekdayDate"
    /\ evaluation.applied < 2
    /\ Apply([St EXCEPT !.evaluation.applied = @ + 1,
                        !.evaluation.result =
                            resolveWeekdayDate(IF evaluation.applied = 0 THEN evaluation.dateStr
                                               ELSE evaluation.result,
                                               evaluation.userText, evaluation.today)])

\* Candidate dates before, on and after today, among them a 31st of a
\* month of 30 days, and texts that are no date; utterances with one
\* weekday, without one and empty; a Wednesday in November and the day
\* before New Year's Eve as today.
CandidateDates ==
    {IsoText(2026, 10, d) : d \in 24..31} \cup {IsoText(2026, 11, d) : d \in 1..31}
        \cup {IsoText(2026, 12, d) : d \in 24..31} \cup {IsoText(2027, 1, d) : d \in 1..8}
        \cup {OtherText("morgen"), OtherText("04.11.2026")}
Utterances ==
    {<<>>, <<"hallo">>, <<"morgen", SP, "19uhr">>} \cup
    {<<"am", SP, w>> : w \in DOMAIN WEEKDAY_MAP}
Todays == {newDate(2026, 11, 4), newDate(2026, 12, 30)}
ResolveCalls ==
    {[fn |-> "resolveWeekdayDate", dateStr |-> d, userText |-> u, today |-> n,
      applied |-> 0, result |-> d] :
       d \in CandidateDates, u \in Utterances, n \in Todays}

InitWeekday == InitEvaluating(ResolveCalls)
NextWeekday == ResolveReturns
SpecWeekday == InitWeekday /\ [][NextWeekday]_vars

(***************************************************************************)
(* Closed days.  The closed_days setting is an array, a text holding a     *)
(* JSON array, a text with entries between commas, or something else       *)
(* (null).  An entry of an array is a number or a string; a string is a    *)
(* sequence of pieces: words as written, digits, blanks, dots and quotes.  *)
(***************************************************************************)
NumberItem(n) == [number |-> TRUE, value |-> n]
StringItem(text) == [number |-> FALSE, text |-> text]

WEEKDAY_TOKEN_MAP ==
    [sonntag |-> 0, montag |-> 1, dienstag |-> 2, mittwoch |-> 3, donnerstag |-> 4,
     freitag |-> 5, samstag |-> 6, so |-> 0, mo |-> 1, di |-> 2, mi |-> 3, do |-> 4,
     fr |-> 5, sa |-> 6, sunday |-> 0, monday |-> 1, tuesday |-> 2, wednesday |-> 3,
     thursday |-> 4, friday |-> 5, saturday |-> 6, sun |-> 0, mon |-> 1, tue |-> 2,
     tues |-> 2, wed |-> 3, thu |-> 4, thur |-> 4, thurs |-> 4, fri |-> 5, sat |-> 6]

\* the lower-case form of the pieces written with capitals
LowerCaseOf ==
    [Montag |-> "montag", MONTAG |-> "montag", Mo |-> "mo", Monday |-> "monday",
     Dienstag |-> "dienstag", Sunday |-> "sunday"]

toLowerCase(text) ==
    [k \in 1..Len(text) |->
        IF text[k] \in DOMAIN LowerCaseOf THEN LowerCaseOf[text[k]] ELSE text[k]]

\* the value of the digit pieces
DigitValue == ("0" :> 0) @@ ("1" :> 1) @@ ("2" :> 2) @@ ("7" :> 7)

\* NaN
NotANumber == 0 - 1

\* Number(string): blanks around are ignored, the empty string is 0
NumberOfTrimmed(trimmed) ==
    IF trimmed = <<>> THEN 0
    ELSE IF Len(trimmed) = 1 /\ trimmed[1] \in DOMAIN DigitValue THEN DigitValue[trimmed[1]]
    ELSE NotANumber

\* String(value).trim().toLowerCase().replace(/[.\-_/]/g, "").replace(/\s+/g, ""); the
\* replacements of umlauts and sharp s find nothing in the pieces used here
normalizeWeekdayToken(text) ==
    DropAll(DropAll(toLowerCase(Trim(text)), {".", "-", "_", "/"}), {SP})

\* WEEKDAY_TOKEN_MAP[token], NotANumber for undefined
mappedWeekday(token) ==
    IF Len(token) = 1 /\ token[1] \in DOMAIN WEEKDAY_TOKEN_MAP
    THEN WEEKDAY_TOKEN_MAP[token[1]] ELSE NotANumber

\* the text between two commas: brackets and quotes removed, trimmed
strippedEntry(text) == Trim(DropAll(text, {"{", "}", "[", "]", "\"", "'"}))

\* .split(",").map(trim).filter(Boolean) on the entries of a delimited text
splitEntries(entries) ==
    LET Kept[k \in 0..Len(entries)] ==
            IF k = 0 THEN <<>>
            ELSE IF strippedEntry(entries[k]) = <<>> THEN Kept[k - 1]
            ELSE Append(Kept[k - 1], StringItem(strippedEntry(entries[k])))
    IN Kept[Len(entries)]

parseClosedDaysRaw(value) ==
    IF value.type = "array" THEN value.items
    ELSE IF value.type = "json" THEN value.items
    ELSE IF value.type = "text" THEN splitEntries(value.entries)
    ELSE <<>>

\* the weekdays one entry adds to the set
weekdaysOfNumber(n) == IF n >= 0 /\ n <= 6 THEN {n} ELSE {}

weekdaysOfEntry(rawDay) ==
    IF rawDay.number THEN weekdaysOfNumber(rawDay.value)
    ELSE IF NumberOfTrimmed(Trim(rawDay.text)) >= 0 /\ NumberOfTrimmed(Trim(rawDay.text)) <= 6
    THEN {NumberOfTrimmed(Trim(rawDay.text))}
    ELSE weekdaysOfNumber(mappedWeekday(normalizeWeekdayToken(rawDay.text)))

RECURSIVE sortAscending(_)
\* Array.from(normalized).sort((a, b) => a - b)
sortAscending(set) ==
    IF set = {} THEN <<>>
    ELSE <<CHOOSE x \in set : \A y \in set : x <= y>>
             \o sortAscending(set \ {CHOOSE x \in set : \A y \in set : x <= y})

\* the weekdays of the entries, kept in a list in the order of the entries
normalizeClosedDaysAsList(value) ==
    LET rawDays == parseClosedDaysRaw(value)
        Listed[k \in 0..Len(rawDays)] ==
            IF k = 0 THEN <<>>
            ELSE IF weekdaysOfEntry(rawDays[k]) = {} THEN Listed[k - 1]
            ELSE Append(Listed[k - 1], CHOOSE d \in weekdaysOfEntry(rawDays[k]) : TRUE)
    IN Listed[Len(rawDays)]

normalizeClosedDays(value) ==
    LET rawDays == parseClosedDaysRaw(value)
        Normalized[k \in 0..Len(rawDays)] ==
            IF k = 0 THEN {} ELSE Normalized[k - 1] \cup weekdaysOfEntry(rawDays[k])
    IN sortAscending(Normalized[Len(rawDays)])

\* normalizeClosedDays returns
ClosedDaysReturns ==
    /\ evaluation.fn = "normalizeClosedDays"
    /\ ~evaluation.returned
    /\ Apply([St EXCEPT !.evaluation.returned = TRUE,
                        !.evaluation.result = normalizeClosedDays(evaluation.value)])

\* Entries that spell Monday, Tuesday and Sunday in numbers, German and
\* English, one that is no weekday, a number out of range and the empty string.
ClosedDayStrings ==
    {<<"Montag">>, <<"montag">>, <<"1">>, <<"Mo", ".">>, <<SP, "Monday">>,
     <<"Dienstag">>, <<"sunday">>, <<"ruhetag">>, <<>>}
ClosedDayItems ==
    {NumberItem(1), NumberItem(7)} \cup {StringItem(s) : s \in ClosedDayStrings}
ClosedDayItemLists == UNION {[1..n -> ClosedDayItems] : n \in 0..MaxClosedDayTokens}
ClosedDayEntryLists == UNION {[1..n -> ClosedDayStrings] : n \in 0..MaxClosedDayTokens}
ClosedDayValues ==
    {[type |-> "array", items |-> l] : l \in ClosedDayItemLists}
        \cup {[type |-> "json", items |-> l] : l \in ClosedDayItemLists}
        \cup {[type |-> "text", entries |-> l] : l \in ClosedDayEntryLists}
        \cup {[type |-> "null"]}
ClosedDaysCalls ==
    {[fn |-> "normalizeClosedDays", value |-> v, returned |-> FALSE, result |-> <<>>] :
       v \in ClosedDayValues}

InitClosedDays == InitEvaluating(ClosedDaysCalls)
NextClosedDays == ClosedDaysReturns
SpecClosedDays == InitClosedDays /\ [][NextClosedDays]_vars

(***************************************************************************)
(* The two reservation tools.  Each runs its checks of the date at once    *)
(* and only then addresses the reservations table, whose answer it awaits. *)
(* supabase.reservations holds the confirmed reservations of the requested *)
(* date; evaluation.queries lists the statements sent to the table.        *)
(***************************************************************************)
WEEKDAY_LABELS ==
    <<"Sonntag", "Montag", "Dienstag", "Mittwoch", "Donnerstag", "Freitag", "Samstag">>

\* parsedDate < todayDate, both at midnight
isPastDate(dateStr, today) ==
    IF parseIsoDate(dateStr) = NoDate THEN FALSE ELSE parseIsoDate(dateStr) < today

\* days.map((day) => WEEKDAY_LABELS[day])
weekdayLabels(days) == [k \in 1..Len(days) |-> WEEKDAY_LABELS[days[k] + 1]]

\* closedDayIndexes.filter((day) => day !== requestedDayIndex)
otherDays(closedDayIndexes, requestedDayIndex) ==
    LET isOtherDay(day) == day # requestedDayIndex
    IN SelectSeq(closedDayIndexes, isOtherDay)

closedDayDetailsOf(closedDayIndexes, requestedDayIndex) ==
    [isClosed |-> \E k \in 1..Len(closedDayIndexes) : closedDayIndexes[k] = requestedDayIndex,
     requestedDayName |-> WEEKDAY_LABELS[requestedDayIndex + 1],
     closedDayNames |-> weekdayLabels(closedDayIndexes),
     otherClosedDayNames |->
         weekdayLabels(otherDays(closedDayIndexes, requestedDayIndex)),
     closedDayIndexes |-> closedDayIndexes]

closedDayDetailsUnparsed(closedDayIndexes) ==
    [isClosed |-> FALSE,
     requestedDayName |-> Null,
     closedDayNames |-> weekdayLabels(closedDayIndexes),
     otherClosedDayNames |-> <<>>,
     closedDayIndexes |-> closedDayIndexes]

\* the closed days are taken as they are written when they are an array of numbers
getClosedDayDetailsOfNumbers(dateStr, closedDaysRaw) ==
    IF parseIsoDate(dateStr) = NoDate
    THEN closedDayDetailsUnparsed(normalizeClosedDays(closedDaysRaw))
    ELSE [closedDayDetailsOf(normalizeClosedDays(closedDaysRaw), getDay(parseIsoDate(dateStr)))
             EXCEPT !.isClosed =
                 /\ closedDaysRaw.type = "array"
                 /\ \E k \in 1..Len(closedDaysRaw.items) :
                        closedDaysRaw.items[k] = NumberItem(getDay(parseIsoDate(dateStr)))]

getClosedDayDetails(dateStr, closedDaysRaw) ==
    IF parseIsoDate(dateStr) = NoDate
    THEN closedDayDetailsUnparsed(normalizeClosedDays(closedDaysRaw))
    ELSE closedDayDetailsOf(normalizeClosedDays(closedDaysRaw), getDay(parseIsoDate(dateStr)))

\* the rejection both tools return for a closed day; flag is "available" or "success"
closedDayRejection(flag, closedDayDetails) ==
    (flag :> FALSE) @@
    [error |-> "Closed day",
     is_closed_day |-> TRUE,
     requested_day |-> closedDayDetails.requestedDayName,
     closed_days |-> closedDayDetails.closedDayNames,
     other_closed_days |-> closedDayDetails.otherClosedDayNames,
     prompt_user_for_new_date |-> TRUE]

toolRejection(flag, error) == (flag :> FALSE) @@ [error |-> error]

toolReturns(e, result) == [e EXCEPT !.fn = e.name, !.returned = TRUE, !.result = result]

toolQueries(e, statement) == [e EXCEPT !.fn = e.name, !.queries = Append(@, statement)]

\* checkAvailability up to its await of the select
checkAvailabilityCalled(e, closedDayDetails, table) ==
    IF isPastDate(e.date, e.today) THEN toolReturns(e, toolRejection("available", "Past date"))
    ELSE IF closedDayDetails.isClosed
    THEN toolReturns(e, closedDayRejection("available", closedDayDetails))
    ELSE IF parseTimeToMinutes(e.time) = NoMinutes
    THEN toolReturns(e, toolRejection("available", "Invalid time"))
    ELSE [toolQueries(e, "select") EXCEPT !.data = table]

\* createReservation up to its await of the insert
createReservationCalled(e, closedDayDetails) ==
    IF isPastDate(e.date, e.today) THEN toolReturns(e, toolRejection("success", "Past date"))
    ELSE IF closedDayDetails.isClosed
    THEN toolReturns(e, closedDayRejection("success", closedDayDetails))
    ELSE toolQueries(e, "insert")

\* handleToolCalls calls the tool the model asked for
ToolCalled ==
    /\ evaluation.fn = "tool"
    /\ Apply([St EXCEPT !.evaluation =
                 IF evaluation.name = "checkAvailability"
                 THEN checkAvailabilityCalled(evaluation,
                          getClosedDayDetails(evaluation.date, evaluation.closedDaysRaw),
                          supabase.reservations)
                 ELSE createReservationCalled(evaluation,
                          getClosedDayDetails(evaluation.date, evaluation.closedDaysRaw))])

\* the select of checkAvailability is answered with an error
AvailabilityFails ==
    /\ evaluation.fn = "checkAvailability"
    /\ ~evaluation.returned
    /\ Apply([St EXCEPT !.evaluation =
                 toolReturns(evaluation, toolRejection("available", "Database error"))])

\* the row createReservation inserts
reservationRow(e) == [time |-> e.time, party_size |-> e.partySize]

InsertAnswers == {"row", "error", "empty"}

\* the insert is answered: with the new row, with an error, or with no row
\* to read the id from
insertAnswered(s, answer) ==
    IF answer = "error"
    THEN [s EXCEPT !.evaluation =
             toolReturns(s.evaluation, toolRejection("success", "insert failed"))]
    ELSE IF answer = "empty"
    THEN [s EXCEPT !.supabase.reservations = Append(@, reservationRow(s.evaluation)),
                   !.evaluation =
                       toolReturns(s.evaluation,
                                   toolRejection("success", "Reservation id missing"))]
    ELSE [s EXCEPT !.supabase.reservations = Append(@, reservationRow(s.evaluation)),
                   !.evaluation =
                       toolReturns(s.evaluation,
                                   [success |-> TRUE, id |-> Len(s.supabase.reservations) + 1])]

ReservationInserted ==
    \E answer \in InsertAnswers :
        /\ evaluation.fn = "createReservation"
        /\ ~evaluation.returned
        /\ Apply(insertAnswered(St, answer))

\* Dates before, on and after today (a Wednesday), a 31st of November and a
\* text that is no date; closed days written as numbers, as names and not at
\* all; empty, partly and fully booked evenings.
ToolNames == {"checkAvailability", "createReservation"}
ToolDates ==
    {IsoText(2026, 11, 3), IsoText(2026, 11, 4), IsoText(2026, 11, 9),
     IsoText(2026, 11, 10), IsoText(2026, 11, 31), OtherText("morgen")}
ToolToday == newDate(2026, 11, 4)
ToolClosedDays ==
    {[type |-> "null"],
     [type |-> "array", items |-> <<NumberItem(3)>>],
     [type |-> "array", items |-> <<StringItem(<<"Mo", ".">>), NumberItem(2)>>],
     [type |-> "text", entries |-> <<<<"Montag">>, <<SP, "mittwoch">>>>]}
ToolTimes == {TimeOfDay(19, 30), TimeOfDay(25, 0)}
ToolPartySizes == {1, 8, 30}
ToolTables ==
    {<<>>,
     <<[time |-> TimeOfDay(19, 0), party_size |-> 10]>>,
     <<[time |-> TimeOfDay(19, 0), party_size |-> 10],
       [time |-> TimeOfDay(19, 30), party_size |-> 10]>>}
ToolCalls ==
    {[fn |-> "tool", name |-> n, date |-> d, today |-> ToolToday, closedDaysRaw |-> cd,
      time |-> t, partySize |-> ps, maxCapacity |-> c, queries |-> <<>>, data |-> <<>>,
      returned |-> FALSE, peakOccupancy |-> 0, result |-> <<>>] :
       n \in ToolNames, d \in ToolDates, cd \in ToolClosedDays, t \in ToolTimes,
       ps \in ToolPartySizes, c \in Capacities}

InitTools ==
    /\ SessionInit({FALSE}, {FALSE}, {EmptyHistory})
    /\ \E table \in ToolTables : supabase = [InitState.supabase EXCEPT !.reservations = table]
    /\ evaluation \in ToolCalls
NextTools == ToolCalled \/ AvailabilityReturns \/ AvailabilityFails \/ ReservationInserted
SpecTools == InitTools /\ [][NextTools]_vars

(***************************************************************************)
(* The rollout.  A 32-bit hash is kept as its two halves of 16 bits; a     *)
(* tenant id is the list of its characters.  The process reads the rollout *)
(* percentage once, when it starts; a restart may find another one.        *)
(***************************************************************************)
RECURSIVE xor(_, _)
\* a ^ b on non-negative numbers
xor(a, b) ==
    IF a = 0 THEN b
    ELSE IF b = 0 THEN a
    ELSE ((a + b) % 2) + 2 * xor(a \div 2, b \div 2)

\* text.charCodeAt(i) of the characters tenant ids are written with here
charCode == ("a" :> 97) @@ ("f" :> 102) @@ ("0" :> 48) @@ ("7" :> 55) @@ ("-" :> 45)

\* hash ^= code, for a code below 65536
hashXor(hash, code) == [hi |-> hash.hi, lo |-> xor(hash.lo, code)]

\* Math.imul(hash, 16777619): the low 32 bits of the product with 2^24 + 403
hashImul(hash) ==
    [hi |-> ((hash.lo % 256) * 256 + hash.hi * 403 + ((hash.lo * 403) \div 65536)) % 65536,
     lo |-> (hash.lo * 403) % 65536]

\* Math.abs(hash >>> 0) % 100; 65536 % 100 is 36
hashModulo100(hash) == ((hash.hi % 100) * 36 + hash.lo) % 100

\* 2166136261 is 33052 * 65536 + 40389
hashToPercent(value) ==
    LET Hashed[k \in 0..Len(value)] ==
            IF k = 0 THEN [hi |-> 33052, lo |-> 40389]
            ELSE hashImul(hashXor(Hashed[k - 1], charCode[value[k]]))
    IN hashModulo100(Hashed[Len(value)])

\* the default of PERF_V2_ENABLED
PERF_V2_ENABLED == TRUE

\* the comparison turned round
shouldEnablePerfV2AboveHash(practiceId, percent) ==
    IF ~PERF_V2_ENABLED THEN FALSE
    ELSE IF practiceId = <<>> THEN FALSE
    ELSE IF percent >= 100 THEN TRUE
    ELSE IF percent <= 0 THEN FALSE
    ELSE hashToPercent(practiceId) >= percent

\* percent is PERF_V2_ROLLOUT_PERCENT; a missing practice id is the empty text
shouldEnablePerfV2ForPractice(practiceId, percent) ==
    IF ~PERF_V2_ENABLED THEN FALSE
    ELSE IF practiceId = <<>> THEN FALSE
    ELSE IF percent >= 100 THEN TRUE
    ELSE IF percent <= 0 THEN FALSE
    ELSE hashToPercent(practiceId) < percent

\* Math.max(0, Math.min(100, parsed)): the percentages parsePercent lets through
RolloutPercents == 0..100

\* a call of the tenant starts: the start handler asks for its enrollment
EnrollmentReturns ==
    /\ evaluation.fn = "shouldEnablePerfV2ForPractice"
    /\ Apply([St EXCEPT !.evaluation.returned = TRUE,
                        !.evaluation.resultPercent = evaluation.percent,
                        !.evaluation.result =
                            shouldEnablePerfV2ForPractice(evaluation.practiceId,
                                                          evaluation.percent)])

\* the process is started again with the rollout percentage one higher or lower
RolloutChanges ==
    \E percent \in {evaluation.percent - 1, evaluation.percent + 1} :
        /\ evaluation.fn = "shouldEnablePerfV2ForPractice"
        /\ percent \in RolloutPercents
        /\ Apply([St EXCEPT !.evaluation.percent = percent])

\* Tenant ids of up to two characters, among them the missing id.
PracticeIdChars == DOMAIN charCode
PracticeIds == UNION {[1..n -> PracticeIdChars] : n \in 0..MaxPracticeIdLen}
EnrollmentCalls ==
    {[fn |-> "shouldEnablePerfV2ForPractice", practiceId |-> id, percent |-> p,
      returned |-> FALSE, resultPercent |-> p, result |-> FALSE] :
       id \in PracticeIds, p \in RolloutPercents}

InitRollout == InitEvaluating(EnrollmentCalls)
NextRollout == EnrollmentReturns \/ RolloutChanges
SpecRollout == InitRollout /\ [][NextRollout]_vars

(***************************************************************************)
(* Concurrent calls of one tenant.  evaluation.calls holds, for each of    *)
(* the calls, the tool function it runs; they share the reservations table *)
(* of one open day.                                                        *)
(***************************************************************************)
IdleTool == [fn |-> "idle", returned |-> TRUE]

\* the tool call handleToolCalls makes for the arguments the model gave
toolCallOf(name, time, partySize, maxCapacity) ==
    [fn |-> "tool", name |-> name, date |-> IsoText(2026, 11, 5), today |-> ToolToday,
     closedDaysRaw |-> [type |-> "null"], time |-> time, partySize |-> partySize,
     maxCapacity |-> maxCapacity, queries |-> <<>>, data |-> <<>>,
     returned |-> FALSE, peakOccupancy |-> 0, result |-> <<>>]

\* the tool function of call k runs as the one under evaluation and its
\* state is put back
withToolOf(s, k) == [s EXCEPT !.evaluation = s.evaluation.calls[k]]
toolOfBecomes(s, k, r) ==
    [r EXCEPT !.evaluation = [s.evaluation EXCEPT !.calls[k] = r.evaluation]]

toolCalledBy(s, e) ==
    IF e.name = "checkAvailability"
    THEN checkAvailabilityCalled(e, getClosedDayDetails(e.date, e.closedDaysRaw),
                                 s.supabase.reservations)
    ELSE createReservationCalled(e, getClosedDayDetails(e.date, e.closedDaysRaw))

BookingTimes == {TimeOfDay(19, 0), TimeOfDay(19, 30)}
BookingPartySizes == {4, 8}

\* call k has no tool running and its model asks for a tool
ToolCalledBy(k) ==
    \E name \in ToolNames, time \in BookingTimes, partySize \in BookingPartySizes :
        /\ evaluation.fn = "booking"
        /\ evaluation.calls[k].returned
        /\ Len(supabase.reservations) < MaxBookedRows
        /\ Apply([St EXCEPT !.evaluation.calls[k] =
                     toolCalledBy(St, toolCallOf(name, time, partySize,
                                                 evaluation.maxCapacity))])

\* the select of call k is answered
AvailabilityReturnsTo(k) ==
    /\ evaluation.fn = "booking"
    /\ evaluation.calls[k].fn = "checkAvailability"
    /\ ~evaluation.calls[k].returned
    /\ Apply([St EXCEPT !.evaluation.calls[k] =
                 availabilityReturned(evaluation.calls[k],
                     computePeakOccupancy(evaluation.calls[k].data,
                                          parseTimeToMinutes(evaluation.calls[k].time),
                                          evaluation.calls[k].partySize))])

\* the insert of call k is answered
ReservationInsertedFor(k) ==
    \E answer \in InsertAnswers :
        /\ evaluation.fn = "booking"
        /\ evaluation.calls[k].fn = "createReservation"
        /\ ~evaluation.calls[k].returned
        /\ Apply(toolOfBecomes(St, k, insertAnswered(withToolOf(St, k), answer)))

BookingCalls == 1..MaxConcurrentCalls

InitBooking ==
    InitEvaluating({[fn |-> "booking", maxCapacity |-> 10,
                     calls |-> [k \in BookingCalls |-> IdleTool]]})
NextBooking ==
    \E k \in BookingCalls :
        \/ ToolCalledBy(k)
        \/ AvailabilityReturnsTo(k)
        \/ ReservationInsertedFor(k)
SpecBooking == InitBooking /\ [][NextBooking]_vars

\* The transcript queue: a low-latency call whose greeting, user texts and
\* replies are recorded by the worker while the dialogue goes on; writes that
\* succeed or fail.
NextTranscript ==
    \/ Start({TRUE}, {TRUE}, {PhoneB}, {Null})
    \/ AccessDone({PhoneA})
    \/ LlmDone({"clean"}, {<<>>})
    \/ FinalTranscript({<<"hallo">>}, MaxRecordedTranscripts)
    \/ TranscriptWriteDone
    \/ TranscriptSleepDone
    \/ SessionEvents({TRUE})

SpecTranscript == Init /\ [][NextTranscript]_vars

\* createTranscriptEntry awaits one datastore request and the backoff sleep one
\* timer: each of them returns
SpecTranscriptFair ==
    SpecTranscript /\ WF_vars(TranscriptWriteDone) /\ WF_vars(TranscriptSleepDone)

\* The notification: a caller whose table is booked, once or several times; an
\* application interface that answers, refuses, fails or cannot be reached.
NextNotify ==
    \/ Start({TRUE}, {TRUE}, {PhoneB}, {Null})
    \/ AccessDone({PhoneA})
    \/ CallLogDone({FALSE})
    \/ DgOpen
    \/ FinalTranscript({<<"hallo">>}, 1)
    \/ Tick(TickMs)
    \/ FirstTurnTimerFires
    \/ LlmDone({"clean"}, ReservationTools)
    \/ ToolDone
    \/ TtsDone
    \/ FetchDone
    \/ RetryDelayDone

SpecNotify == InitNotify /\ [][NextNotify]_vars

\* fetch settles (the HTTP client has its own timeouts) and the timer fires
SpecNotifyFair == SpecNotify /\ WF_vars(FetchDone) /\ WF_vars(RetryDelayDone)

\* the rows the practices table can hold for the tenant; calls_limit 0 stands
\* for a limit that is missing, not a number or not positive
PracticeRows ==
    [subscription_status : {"active", "expired"}, calls_limit : {0, 2},
     extra_number : {PhoneA}]

\* The access check: a tenant whose row and call count change in the
\* datastore while cached and uncached reads go on; a call that starts.
NextAccess ==
    \/ Start({TRUE}, {TRUE}, {PhoneB}, {Null})
    \/ SettingsReadDone
    \/ CountReadDone
    \/ CachedRead
    \/ DatastoreUpdate(PracticeRows)
    \/ ForwardDone
    \/ CallLogDone({FALSE})
    \/ Close

SpecAccess == Init /\ [][NextAccess]_vars

\* The denied call: the access check of the start event with every reason to
\* deny, tenants with and without a number to forward to, and the dialogue
\* that an allowed call goes on to.
NextDenied ==
    \/ Start(BOOLEAN, {TRUE}, HandoffNumbers, {Null})
    \/ SettingsReadDone
    \/ CountReadDone
    \/ DatastoreUpdate(PracticeRows)
    \/ ForwardDone
    \/ LlmDone({"clean"}, {<<>>})
    \/ FinalTranscript({<<"hallo">>}, 1)
    \/ SessionEvents({FALSE})

SpecDenied == Init /\ [][NextDenied]_vars

(***************************************************************************)
(* Properties.                                                             *)
(***************************************************************************)
TurnTasks == {i \in 1..Len(tasks) : tasks[i].kind = "turn"}

\* C1: at most one Pending Turn is being handled at a time: while one
\* activation of handleUserTurn (with its model requests, tool executions and
\* synthesis calls) has not returned, no second one is started, and exactly
\* then the processing flag is set.
C1_SingleConsumer ==
    /\ Cardinality(TurnTasks) <= 1
    /\ call.processing <=> TurnTasks # {}

\* a turn waits in the queue while the previous one has a model request in flight
C1_Witness ==
    /\ Len(pendingTurns) > 0
    /\ \E i \in TurnTasks : tasks[i].pc = "llm"

C3_NoMediaAfterInactive == ~obs.mediaSentInactive

\* C4: the queue never holds more than TURN_QUEUE_MAX_SIZE entries; a turn
\* enqueued on a full queue removes the oldest entry and is appended, so the
\* queue holds the most recent turns in arrival order (an idle consumer of an
\* active call takes the head in the same step).
C4_BoundedDropOldest ==
    [][/\ Len(pendingTurns') <= TURN_QUEUE_MAX_SIZE
       /\ (obs.transcripts' # obs.transcripts /\ call.hasProcessedFirstUserTurn)
           => LET full == Len(pendingTurns) = TURN_QUEUE_MAX_SIZE
                  queued == Append(IF full THEN Tail(pendingTurns) ELSE pendingTurns,
                                   [text |-> obs.lastFinal', isFirstTurn |-> FALSE])
              IN pendingTurns' = IF call.processing \/ ~call.callActive
                                  THEN queued ELSE Tail(queued)]_vars

\* in an active call, with a turn at the model, the queue is full after a turn
\* was enqueued on a full queue
C4_Witness ==
    /\ obs.droppedOldest
    /\ Len(pendingTurns) = TURN_QUEUE_MAX_SIZE
    /\ call.callActive
    /\ \E i \in TurnTasks : tasks[i].pc = "llm"

\* the step in which the first-turn buffer of an active call is flushed
FirstTurnFlushed ==
    call.callActive' /\ ~call.hasProcessedFirstUserTurn /\ call.hasProcessedFirstUserTurn'

\* after the step one activation handles a turn flagged as the first turn, with
\* the given text, nothing else is queued, and it is the only first turn so far
OneFirstTurnWith(text) ==
    /\ pendingTurns' = <<>>
    /\ obs.firstTurns' = 1
    /\ \E i \in 1..Len(tasks') :
           /\ tasks'[i].kind = "turn" /\ tasks'[i].isFirstTurn /\ tasks'[i].text = text
           /\ \A j \in 1..Len(tasks') : tasks'[j].kind = "turn" => j = i

\* C5 as stated: the fragments that arrive before the coalescing timer fires
\* produce exactly one Pending Turn, enqueued when the timer fires (not by the
\* arrival of a fragment), whose text is the fragments joined by single spaces
\* in arrival order and which is flagged as the first turn.
C5_Original ==
    [][FirstTurnFlushed =>
          /\ OneFirstTurnWith(JoinParts(obs.fragments'))
          /\ obs.transcripts' = obs.transcripts]_vars

\* C5: while the call stays active the fragments that arrive before the first
\* turn is flushed produce exactly one Pending Turn, flagged as the first turn,
\* whose text is the words of the fragments in arrival order separated by
\* single spaces (runs of blanks inside a fragment collapsed); it is enqueued
\* when the timer fires, or by a fragment arriving once INITIAL_TURN_MAX_WAIT_MS
\* have passed since the first fragment; no turn exists before, and no second
\* first turn after.
C5_OneJoinedFirstTurn ==
    [][/\ FirstTurnFlushed =>
            /\ OneFirstTurnWith(NormalizedJoin(obs.fragments'))
            /\ obs.transcripts' # obs.transcripts
                   => firstTurnBuffer.elapsed >= INITIAL_TURN_MAX_WAIT_MS
       /\ (call.callActive' /\ ~call.hasProcessedFirstUserTurn')
            => pendingTurns' = <<>> /\ obs.firstTurns' = 0
       /\ obs.firstTurns' <= 1]_vars

\* three fragments were merged into the first turn, which is at the model
C5_Witness ==
    /\ Len(obs.fragments) = 3
    /\ call.callActive
    /\ \E i \in TurnTasks : /\ tasks[i].isFirstTurn /\ tasks[i].pc = "llm"
                            /\ tasks[i].text = NormalizedJoin(obs.fragments)

\* C6: when the third of three consecutive marked assistant replies is
\* evaluated while the call is active and no handoff is in progress, the same
\* step sets awaiting-confirmation, and no model request is in flight after
\* it: the prompt comes before any further request to the language model.
C6_PromptOnThirdMarked ==
    [][(/\ obs.markedRun = HANDOFF_THRESHOLD_MISUNDERSTANDINGS - 1
        /\ obs.markedRun' = HANDOFF_THRESHOLD_MISUNDERSTANDINGS
        /\ call.callActive'
        /\ ~handoffState.inProgress')
       => /\ handoffState.awaitingConfirmation'
          /\ \A i \in 1..Len(tasks') : tasks'[i].pc # "llm"]_vars

\* the third marked reply in a row has been evaluated and the confirmation
\* prompt is being synthesised
C6_Witness ==
    /\ obs.markedRun = HANDOFF_THRESHOLD_MISUNDERSTANDINGS
    /\ handoffState.awaitingConfirmation
    /\ call.callActive
    /\ \E i \in TurnTasks : tasks[i].pc = "tts" /\ tasks[i].content = "marked"

\* the step in which handleUserTurn routes a turn: confirmation, explicit
\* handoff request, or the language model
TurnRouted == obs.routeTick' # obs.routeTick

\* C7: a user turn routed while awaiting-confirmation is true is consumed by
\* handleHandoffConfirmation and no model request is issued for it (none is
\* ever issued while awaiting); a text that is neither affirmative nor
\* negative leaves awaiting-confirmation true and the counter unchanged.
C7_ConfirmationConsumesTurn ==
    [][/\ (TurnRouted /\ handoffState.awaitingConfirmation)
           => /\ obs.lastRoute' \in {"confirm_yes", "confirm_no", "confirm_other"}
              /\ \A i \in 1..Len(tasks') : tasks'[i].pc # "llm"
              /\ obs.lastRoute' = "confirm_other"
                    => /\ handoffState.awaitingConfirmation'
                       /\ handoffState.consecutiveMisunderstandings'
                              = handoffState.consecutiveMisunderstandings
       /\ ~obs.llmWhileAwaiting']_vars

\* a turn that was neither yes nor no was consumed: the re-prompt is being
\* synthesised and the machine still awaits the confirmation
C7_Witness ==
    /\ obs.lastRoute = "confirm_other"
    /\ handoffState.awaitingConfirmation
    /\ \E i \in TurnTasks : tasks[i].pc = "tts" /\ tasks[i].text = <<"hallo">>

DiffersFromOwnNumbers(target) ==
    /\ ~isSamePhoneNumber(target, call.botPhoneNumber)
    /\ ~isSamePhoneNumber(target, call.forwardedFromNumber)

\* C8 as stated: every transfer target differs, after normalization, from the
\* bot's number and from the forwarding-source number.
C8_Original == \A target \in obs.transferTargets : DiffersFromOwnNumbers(target)

\* C8: every target is the normalized extra_number of the practice's settings
\* (obs.accessNumber, as the access check returned them); the target
\* of the access-denied forward, and in routing mode separate_number the target
\* of initiateHandoff, differs after normalization from the bot's number and
\* from the forwarding-source number, and no transfer is requested when the
\* number equals one of them; in routing mode studio_same_number
\* initiateHandoff requests a transfer only when the bot's number is known.
C8_TargetAvoidsOwnNumbers ==
    LET checked == obs.accessDenied \/ ~call.allowSameNumber
    IN /\ \A target \in obs.transferTargets :
              /\ target = normalizePhoneNumber(obs.accessNumber)
              /\ checked => DiffersFromOwnNumbers(target)
              /\ ~checked => normalizePhoneNumber(call.botPhoneNumber) # Null
       /\ (checked /\ ~DiffersFromOwnNumbers(obs.accessNumber))
              => obs.transferRequests = 0

\* in routing mode separate_number a handoff has asked for a transfer to the
\* practice's number, written with separators, while the forwarding source is a
\* different number and the bot's number another one
C8_Witness ==
    /\ ~call.allowSameNumber /\ ~obs.accessDenied
    /\ obs.accessNumber = PhoneASpaced
    /\ call.botPhoneNumber = PhoneB
    /\ obs.transferTargets = {normalizePhoneNumber(PhoneASpaced)}
    /\ \E i \in 1..Len(tasks) : tasks[i].pc = "transfer"

C10_InactiveAfterAccept ==
    /\ obs.handoffAccepted => ~call.callActive
    /\ ~obs.mediaSentAfterAccept

\* the step in which the recognition bridge is declared failed
DgFailureDeclared == ~dg.deepgramFailureHandled /\ dg.deepgramFailureHandled'

\* the step in which a retry connection is started
DgRetryStarted == Len(dg.conns) >= 1 /\ Len(dg.conns') = Len(dg.conns) + 1

\* the step in which the first attempt raises an error before it has opened
DgFirstAttemptErrored == obs.firstAttemptError = "none" /\ obs.firstAttemptError' # "none"

\* the retry connection uses the legacy endpoint configuration and is connecting
RetryIsLegacy ==
    LET retry == dg.conns'[Len(dg.conns')]
    IN /\ retry.useFallback
       /\ retry.state = "connecting"
       /\ retry.liveOptions = [endpointing |-> DG_ENDPOINTING_MS_LEGACY,
                               utterance_end_ms |-> DG_UTTERANCE_END_MS_LEGACY]

C12_ForwardOnlyWhenReady ==
    [][/\ obs.dgSent' # obs.dgSent =>
              /\ obs.frames' = obs.frames + 1
              /\ obs.dgSent' = Append(obs.dgSent, obs.frames')
              /\ dg.conns # <<>> /\ getReadyState(St) = 1
       /\ (obs.frames' = obs.frames + 1 /\ (dg.conns = <<>> \/ getReadyState(St) # 1))
              => obs.dgSent' = obs.dgSent]_vars

\* the first frame arrived while the connection was connecting and was dropped,
\* the second arrived after it opened and was sent, the third after the socket
\* closed and was dropped
C12_Witness ==
    /\ obs.frames = 3
    /\ obs.dgSent = <<2>>
    /\ dg.conns # <<>> /\ dg.conns[Len(dg.conns)].state = "closed"

\* the activation of processPendingTurns among the activations ts, if any
NoTurn == [kind |-> "none", pc |-> "none", after |-> "none", text |-> <<>>, failed |-> FALSE]

TheTurn(ts) ==
    IF \E i \in 1..Len(ts) : ts[i].kind = "turn"
    THEN ts[CHOOSE i \in 1..Len(ts) : ts[i].kind = "turn"]
    ELSE NoTurn

\* the step in which the model request (or a tool) of the current turn fails
\* and the session is still handling the turn after it
TurnFailedNow == ~TheTurn(tasks).failed /\ TheTurn(tasks').failed

\* C13: when a model request fails inside a turn of an active call, the same
\* step hands the apology to speak (its synthesis is awaited), leaves the
\* activity flag, the handoff state and the queue as they were and issues no
\* model request; the turn issues none later; and when the apology is through,
\* the consumer takes the next Pending Turn from the head of the queue (or
\* ends when there is none).
C13_ApologyEndsTurn ==
    [][/\ TurnFailedNow =>
              /\ call.callActive' = call.callActive
              /\ handoffState' = handoffState
              /\ pendingTurns' = pendingTurns
              /\ TheTurn(tasks').pc # "llm"
              /\ (call.callActive /\ call.streamSid)
                     => TheTurn(tasks').pc = "tts" /\ TheTurn(tasks').after = "done"
       /\ ~obs.llmAfterError'
       /\ (/\ TheTurn(tasks).failed /\ TheTurn(tasks).pc = "tts"
           /\ TheTurn(tasks') # TheTurn(tasks))
              => IF pendingTurns # <<>> /\ call.callActive /\ ~handoffState.inProgress
                 THEN /\ TheTurn(tasks').kind = "turn" /\ ~TheTurn(tasks').failed
                      /\ TheTurn(tasks').text = Head(pendingTurns).text
                      /\ pendingTurns' = Tail(pendingTurns)
                 ELSE TheTurn(tasks') = NoTurn /\ ~call.processing']_vars

\* the model request of a turn failed: the apology is being synthesised, the
\* call is active, no handoff is in progress and the next turn waits
C13_Witness ==
    /\ call.callActive /\ ~handoffState.inProgress
    /\ Len(pendingTurns) > 0
    /\ \E i \in TurnTasks : tasks[i].failed /\ tasks[i].pc = "tts"

\* C14: while one Pending Turn is resolved at most one model request has
\* check_availability pinned as the required tool, and a pinned request is
\* issued only after a reply without tool call and only when the conversation
\* holds a date, a time and a party size or a text signals availability intent.
C14_OnePinnedRequestPerTurn ==
    /\ \A i \in 1..Len(tasks) : tasks[i].pinnedCalls <= 1
    /\ ~obs.pinnedAfterToolReply
    /\ ~obs.pinnedUnfounded

\* C15: a hangup request is sent only by the auto-hangup timer when its delay
\* has elapsed, and only if at that moment the call is active and no handoff
\* is in progress; the timer is armed only in an active call, after a
\* create_reservation tool call has succeeded and a later assistant reply with
\* content has been through speak.
C15_HangupOnlyAfterConfirmedReservation ==
    [][/\ obs.hangupRequests' # obs.hangupRequests =>
              /\ obs.hangupRequests' = obs.hangupRequests + 1
              /\ timers.hangupTimer /\ ~timers.hangupTimer'
              /\ call.callActive /\ ~handoffState.inProgress
              /\ obs.reservationSucceeded /\ obs.replyAfterReservation
       /\ (~timers.hangupTimer /\ timers.hangupTimer') =>
              /\ call.callActive'
              /\ obs.reservationSucceeded' /\ obs.replyAfterReservation']_vars

\* after a successful reservation and the spoken confirmation the delay has
\* elapsed in an active call and the hangup request is with the telephony
\* collaborator
C15_Witness ==
    /\ obs.hangupRequests = 1
    /\ call.callActive
    /\ obs.reservationSucceeded
    /\ \E i \in 1..Len(tasks) : tasks[i].pc = "hangupCall"

\* the step that handles a stop event or a close event
SessionEnded ==
    \/ call.callActive /\ ~call.callActive'
    \/ call.connection # "closed" /\ call.connection' = "closed"

\* C16: the step that handles a stop or close event leaves the session
\* inactive, the queue empty, and no first-turn timer, greeting timer or
\* auto-hangup timer pending; in a session that has ended no hangup request
\* is sent, and no handleUserTurn is ever started while the session is
\* inactive.
C16_EndCancelsPendingWork ==
    [][/\ SessionEnded =>
              /\ ~call.callActive'
              /\ pendingTurns' = <<>>
              /\ firstTurnBuffer' = Null
              /\ ~timers.greetingTimer' /\ ~timers.hangupTimer'
       /\ (call.streamSid /\ ~call.callActive) => obs.hangupRequests' = obs.hangupRequests
       /\ ~obs.turnWhileInactive']_vars

\* a stop came while a turn was queued behind a turn at the model: the queue
\* is empty, the session inactive, the request of the turn at the model in flight
C16_Witness ==
    /\ "turns" \in obs.cancelled
    /\ ~call.callActive
    /\ pendingTurns = <<>>
    /\ TheTurn(tasks).pc = "llm"

TranscriptWorkers == {i \in 1..Len(tasks) : tasks[i].kind = "transcripts"}

\* the attempts move through the entries in the order of their arrival, one
\* entry at a time
AttemptsInOrder ==
    obs'.lastAttempted \in {obs.lastAttempted, obs.lastAttempted + 1}

\* C17: in low-latency mode at most one worker drains the transcript queue at
\* any time, the entries are attempted in the order they were enqueued, an
\* entry is attempted at most TRANSCRIPT_QUEUE_RETRIES + 1 times and then
\* dropped, and every enqueued entry is attempted in the end, also when it
\* arrived while the worker was running.
C17_SingleWorkerDrainsInOrder ==
    /\ [](/\ Cardinality(TranscriptWorkers) <= 1
          /\ transcriptQueue.running = (TranscriptWorkers # {})
          /\ obs.attemptsOfLast <= TRANSCRIPT_QUEUE_RETRIES + 1)
    /\ [][AttemptsInOrder]_vars
    /\ []<>(transcriptQueue.items = <<>> /\ obs.lastAttempted = obs.entries)

\* the first entry is at its last attempt while later entries wait behind it
C17_Witness ==
    /\ Cardinality(TranscriptWorkers) = 1
    /\ obs.lastAttempted = 1
    /\ obs.attemptsOfLast = TRANSCRIPT_QUEUE_RETRIES + 1
    /\ Len(transcriptQueue.items) >= 2

NotifyTasks == {i \in 1..Len(tasks) : tasks[i].kind = "notify"}

\* the notification n has made another fetch in this step
Refetched(n) ==
    /\ n <= Len(obs.notifications)
    /\ obs'.notifications[n].fetches > obs.notifications[n].fetches

\* a step of a notification that was already running
NotificationStep ==
    \E n \in 1..Len(obs.notifications) : obs'.notifications[n] # obs.notifications[n]

TheStart(ts) ==
    IF \E i \in 1..Len(ts) : ts[i].kind = "start"
    THEN ts[CHOOSE i \in 1..Len(ts) : ts[i].kind = "start"]
    ELSE NoTurn

\* the access check has denied the call in this step
DeniedInStep ==
    /\ ~call'.practiceSettings
    /\ TheStart(tasks').pc \notin {"access", "callCount", "calllog"}
    /\ obs'.accessDenied

\* C19: checkPracticeAccess decides on what the datastore holds when it asks,
\* never on practiceCache: whatever cached reads and datastore updates came
\* before, when its settings query returns while the row is missing or
\* expired the call is denied; the limit it goes on with is the one of the
\* row just read; and when its count query returns while the calls of the
\* month have reached that limit the call is denied.
C19_AccessCheckReadsDatastore ==
    [][/\ (/\ TheStart(tasks).pc = "access"
           /\ TheStart(tasks').pc # "access"
           /\ \/ supabase.practice = Null
              \/ isSubscriptionExpired(supabase.practice.subscription_status))
          => DeniedInStep
       /\ (TheStart(tasks).pc = "access" /\ TheStart(tasks').pc = "callCount")
          => TheStart(tasks').settings = supabase.practice
       /\ (/\ TheStart(tasks).pc = "callCount"
           /\ TheStart(tasks').pc # "callCount"
           /\ supabase.calls >= TheStart(tasks).settings.calls_limit)
          => DeniedInStep]_vars

\* the cache held another row than the datastore when the check asked, the
\* datastore said expired and the call was denied
C19_Witness ==
    /\ obs.staleAtCheck
    /\ obs.accessDenied
    /\ supabase.practice # Null
    /\ isSubscriptionExpired(supabase.practice.subscription_status)
    /\ practiceCache = supabase.practice
    /\ TheStart(tasks).pc = "forward"

\* C20: once the access check of the start event has denied the tenant (row
\* missing, subscription expired, limit reached or count query failed) the
\* session never enters the dialogue: no recognition connection is started,
\* no greeting is scheduled or spoken, the history stays empty, no request
\* goes to the language model, and the connection is closed as soon as the
\* optional forward has returned.
C20_DeniedNeverEntersDialogue ==
    obs.accessDenied =>
        /\ dg.conns = <<>>
        /\ ~timers.greetingTimer
        /\ ~call.practiceSettings
        /\ messages = EmptyHistory
        /\ pendingTurns = <<>> /\ firstTurnBuffer = Null
        /\ \A i \in 1..Len(tasks) : tasks[i].kind = "start" /\ tasks[i].pc = "forward"
        /\ tasks = <<>> => call.connection # "open"

\* a call denied by the count query (the row read was not expired and has a
\* limit), forwarded to the tenant's number and then closed
C20_Witness ==
    /\ obs.accessDenied
    /\ obs.transferRequests = 1
    /\ tasks = <<>>
    /\ call.connection = "closed"
    /\ practiceCache # Null
    /\ ~isSubscriptionExpired(practiceCache.subscription_status)
    /\ practiceCache.calls_limit > 0

(***************************************************************************)
(* C21                                                                     *)
(***************************************************************************)
RolesOf(list) == {list[k].role : k \in 1..Len(list)}

OneSystemMessageFirst(list) ==
    /\ Len(list) >= 1
    /\ list[1].role = "system"
    /\ \A k \in 2..Len(list) : list[k].role # "system"

IsPrefixOf(old, new) ==
    /\ Len(new) >= Len(old)
    /\ SubSeq(new, 1, Len(old)) = old

\* C21: once the settings are loaded the history holds exactly one system
\* message, which is its first element, and every step leaves the messages
\* it held in place and in order: the list only grows at its end.  Until
\* the settings are loaded the list is empty.
C21_HistoryAppendOnly ==
    /\ [](IF call.practiceSettings THEN OneSystemMessageFirst(messages.list)
                                   ELSE messages.list = <<>>)
    /\ [][call.practiceSettings => IsPrefixOf(messages.list, messages.list')]_vars

\* a history with the system message, the greeting, user texts, a reply with
\* a tool call, the tool result and a spoken handoff fallback
C21_Witness ==
    /\ call.practiceSettings
    /\ Len(messages.list) >= 6
    /\ RolesOf(messages.list) = {"system", "assistant", "user", "tool"}
    /\ \E k \in 1..Len(messages.list) : messages.list[k].content = "fallback"

(***************************************************************************)
(* C22                                                                     *)
(***************************************************************************)
\* the messages of the list with one of the roles, as a set
WithRole(list, roles) == {list[k] : k \in IndexesWithRole(list, roles)}

\* kept holds the last Min(n, count) of the messages all (content numbers them in order)
LastOf(kept, all, n) ==
    /\ kept \subseteq all
    /\ Cardinality(kept) = Min(n, Cardinality(all))
    /\ \A x \in kept, y \in all \ kept : y.content < x.content

TrimReturned == evaluation.fn = "trimMessagesForLLM" /\ evaluation.returned

\* C22: trimMessagesForLLM returns the system message first, then exactly the
\* last min(N, count) messages that are neither system nor tool messages
\* and the last min(M, count) tool messages, in the order of the history
\* and each once.
C22_TrimKeepsSystemAndLatest ==
    TrimReturned =>
        LET history == evaluation.history
            result == evaluation.result
        IN /\ Len(result) >= 1
           /\ result[1] = history[1]
           /\ \A k \in 2..Len(result) :
                  /\ result[k].role # "system"
                  /\ k > 2 => result[k - 1].content < result[k].content
           /\ LastOf(WithRole(result, {"user", "assistant"}),
                     WithRole(history, {"user", "assistant"}), evaluation.maxDialogMessages)
           /\ LastOf(WithRole(result, {"tool"}), WithRole(history, {"tool"}),
                     evaluation.maxToolMessages)

\* a history with more dialogue messages and more tool messages than the limits
\* keep, the older ones dropped, and a tool message kept between dialogue
\* messages
C22_Witness ==
    /\ TrimReturned
    /\ Cardinality(WithRole(evaluation.history, {"tool"})) > evaluation.maxToolMessages
    /\ Cardinality(WithRole(evaluation.history, {"user", "assistant"}))
           > evaluation.maxDialogMessages
    /\ Len(evaluation.result) = 1 + evaluation.maxDialogMessages + evaluation.maxToolMessages
    /\ \E k \in 3..(Len(evaluation.result) - 1) :
           /\ evaluation.result[k].role = "tool"
           /\ evaluation.result[k - 1].role # "tool"
           /\ evaluation.result[k + 1].role # "tool"

(***************************************************************************)
(* C23, C24, C25                                                           *)
(***************************************************************************)
AvailabilityReturned == evaluation.fn = "checkAvailability" /\ evaluation.returned

RequestedStart == parseTimeToMinutes(evaluation.time)

\* the reservation's 60 minutes contain the instant t
Seated(reservation, t) ==
    /\ parseTimeToMinutes(reservation.time) # NoMinutes
    /\ parseTimeToMinutes(reservation.time) <= t
    /\ t < parseTimeToMinutes(reservation.time) + RESERVATION_DURATION_MINUTES

RequestedInstants == RequestedStart..(RequestedStart + RESERVATION_DURATION_MINUTES - 1)

\* the reservations seated at some instant of the requested interval
OverlappingRows ==
    {k \in 1..Len(evaluation.data) : \E t \in RequestedInstants : Seated(evaluation.data[k], t)}

PartySizeSum(rows) ==
    LET Sum[k \in 0..Len(evaluation.data)] ==
            IF k = 0 THEN 0
            ELSE IF k \in rows THEN Sum[k - 1] + evaluation.data[k].party_size ELSE Sum[k - 1]
    IN Sum[Len(evaluation.data)]

\* C23: the peak occupancy is at least the party size of every reservation
\* that overlaps the requested interval, and when all overlapping
\* reservations start at the same time it is the sum of their party sizes and
\* the candidate's.
C23_PeakCoversOverlapping ==
    AvailabilityReturned =>
        /\ \A k \in OverlappingRows : evaluation.peakOccupancy >= evaluation.data[k].party_size
        /\ (\A j, k \in OverlappingRows : evaluation.data[j].time = evaluation.data[k].time)
              => evaluation.peakOccupancy = PartySizeSum(OverlappingRows) + evaluation.partySize

\* two reservations that start together half an hour before the requested
\* time, next to one that does not overlap: the peak is their sum and the candidate
C23_Witness ==
    /\ AvailabilityReturned
    /\ Cardinality(OverlappingRows) = 2
    /\ Len(evaluation.data) = 3
    /\ \A k \in OverlappingRows : /\ evaluation.data[k].time = TimeOfDay(18, 30)
                                   /\ evaluation.data[k].party_size = 10
    /\ evaluation.time = TimeOfDay(19, 0)
    /\ evaluation.partySize = 8
    /\ evaluation.peakOccupancy = 28

\* the guests seated at the instant t if the request is granted
OccupancyAt(t) ==
    PartySizeSum({k \in 1..Len(evaluation.data) : Seated(evaluation.data[k], t)})
        + evaluation.partySize

ScenarioA ==
    /\ evaluation.data = <<[time |-> TimeOfDay(19, 0), party_size |-> 10]>>
    /\ evaluation.time = TimeOfDay(19, 30)
    /\ evaluation.partySize = 8
    /\ evaluation.maxCapacity = 20

\* C24: the peak occupancy is the largest number of guests seated at any
\* instant of the requested 60 minutes, the candidate among them; scenario A
\* (capacity 20, 10 guests at 19:00, 8 requested at 19:30) gives peak 18,
\* available, 2 remaining.
C24_PeakIsMaximumOverInstants ==
    AvailabilityReturned =>
        /\ \A t \in RequestedInstants : OccupancyAt(t) <= evaluation.peakOccupancy
        /\ \E t \in RequestedInstants : OccupancyAt(t) = evaluation.peakOccupancy
        /\ ScenarioA => /\ evaluation.peakOccupancy = 18
                        /\ evaluation.result = [available |-> TRUE, remaining |-> 2]

\* a reservation that ends when the requested hour starts and one that
\* starts inside it: only the second is counted
C24_Witness ==
    /\ AvailabilityReturned
    /\ evaluation.data = <<[time |-> TimeOfDay(18, 30), party_size |-> 10],
                           [time |-> TimeOfDay(19, 30), party_size |-> 10]>>
    /\ evaluation.time = TimeOfDay(19, 30)
    /\ evaluation.partySize = 8
    /\ evaluation.peakOccupancy = 18

AvailableFor(partySize, maxCapacity) ==
    availabilityResult(computePeakOccupancy(evaluation.data, RequestedStart, partySize),
                       maxCapacity).available

\* C25: a request that is available stays available for every smaller
\* positive party size and for every larger capacity, the reservations and
\* the requested time being the same.
C25_AvailabilityMonotone ==
    (AvailabilityReturned /\ evaluation.result.available) =>
        /\ \A smaller \in 1..evaluation.partySize :
               AvailableFor(smaller, evaluation.maxCapacity)
        /\ \A larger \in evaluation.maxCapacity..(evaluation.maxCapacity + 10) :
               AvailableFor(evaluation.partySize, larger)

\* a request for 9 that fits the capacity of 20 next to 10 guests
\* already seated, while at capacity 10 it would not
C25_Witness ==
    /\ AvailabilityReturned
    /\ evaluation.partySize = 9
    /\ evaluation.maxCapacity = 20
    /\ evaluation.peakOccupancy = 19
    /\ evaluation.result = [available |-> TRUE, remaining |-> 1]
    /\ ~AvailableFor(9, 10)

(***************************************************************************)
(* C26, C27                                                                *)
(***************************************************************************)
ResolvedOnce == evaluation.fn = "resolveWeekdayDate" /\ evaluation.applied = 1

\* C26: when the utterance names a weekday and the candidate date parses,
\* the date returned falls on that weekday, is strictly after today and is
\* the next such day after today, whatever the candidate date is.
C26_NextOccurrenceAfterToday ==
    (/\ ResolvedOnce
     /\ getWeekdayFromText(evaluation.userText) # NoWeekday
     /\ parseIsoDate(evaluation.dateStr) # NoDate)
        => /\ getDay(parseIsoDate(evaluation.result)) = getWeekdayFromText(evaluation.userText)
           /\ parseIsoDate(evaluation.result) > evaluation.today
           /\ parseIsoDate(evaluation.result) <= evaluation.today + 7

\* C27: the candidate text comes back unchanged when the utterance names no
\* weekday and when the candidate does not parse as a date, and so does a
\* second application to the result.
C27_UnchangedWithoutWeekday ==
    (/\ evaluation.fn = "resolveWeekdayDate"
     /\ \/ getWeekdayFromText(evaluation.userText) = NoWeekday
        \/ parseIsoDate(evaluation.dateStr) = NoDate)
        => evaluation.result = evaluation.dateStr

\* the 31st of November, which parses as the 1st of December, comes back as
\* it was written, twice, for an utterance without a weekday
C27_Witness ==
    /\ evaluation.fn = "resolveWeekdayDate"
    /\ evaluation.applied = 2
    /\ evaluation.userText = <<"morgen", SP, "19uhr">>
    /\ evaluation.dateStr = IsoText(2026, 11, 31)
    /\ evaluation.result = IsoText(2026, 11, 31)
    /\ formatDate(parseIsoDate(evaluation.dateStr)) = IsoText(2026, 12, 1)

(***************************************************************************)
(* C28                                                                     *)
(***************************************************************************)
ClosedDaysReturned == evaluation.fn = "normalizeClosedDays" /\ evaluation.returned

\* the entries of the setting as written, strings of a text as string items
WrittenEntries(value) ==
    IF value.type \in {"array", "json"} THEN value.items
    ELSE IF value.type = "text" THEN [k \in 1..Len(value.entries) |-> StringItem(value.entries[k])]
    ELSE <<>>

\* the setting with its entries replaced by the list
WithEntries(value, list) ==
    IF value.type \in {"array", "json"} THEN [value EXCEPT !.items = list]
    ELSE IF value.type = "text" THEN [value EXCEPT !.entries = [k \in 1..Len(list) |-> list[k].text]]
    ELSE value

EntrySet(list) == {list[k] : k \in 1..Len(list)}

\* every order and every repetition of the same entries, one entry more at most
Rearrangements(list) ==
    {other \in UNION {[1..n -> EntrySet(list)] : n \in 1..(MaxClosedDayTokens + 1)} :
        EntrySet(other) = EntrySet(list)}

\* the spellings of Sunday (0), Monday (1) and Tuesday (2) among the entries
SpellingsOf ==
    <<{StringItem(<<"sunday">>)},
      {NumberItem(1), StringItem(<<"Montag">>), StringItem(<<"montag">>), StringItem(<<"1">>),
       StringItem(<<"Mo", ".">>), StringItem(<<SP, "Monday">>)},
      {StringItem(<<"Dienstag">>)}>>

\* C28: the result is an ascending list of weekdays 0..6 without
\* duplicates, it is the same for every order and every repetition of the
\* entries, and entries that spell one weekday in numbers, German or English
\* yield that one weekday: Montag, montag, 1 yield the list with 1 alone.
C28_ClosedDaysCanonical ==
    ClosedDaysReturned =>
        /\ \A k \in 1..Len(evaluation.result) :
               /\ evaluation.result[k] \in 0..6
               /\ k > 1 => evaluation.result[k - 1] < evaluation.result[k]
        /\ \A other \in Rearrangements(WrittenEntries(evaluation.value)) :
               normalizeClosedDays(WithEntries(evaluation.value, other)) = evaluation.result
        /\ \A d \in 0..2 :
               (/\ WrittenEntries(evaluation.value) # <<>>
                /\ EntrySet(WrittenEntries(evaluation.value)) \subseteq SpellingsOf[d + 1])
                  => evaluation.result = <<d>>

\* Montag, montag and 1 in a text with commas yield Monday alone
C28_Witness ==
    /\ ClosedDaysReturned
    /\ evaluation.value = [type |-> "text", entries |-> <<<<"Montag">>, <<"montag">>, <<"1">>>>]
    /\ evaluation.result = <<1>>

\* the tool call under evaluation asks for a day that is not in the past and
\* whose weekday is one of the normalized closed days
ClosedDaySet(closedDaysRaw) ==
    {normalizeClosedDays(closedDaysRaw)[k] : k \in 1..Len(normalizeClosedDays(closedDaysRaw))}
ClosedDayRequested ==
    /\ "name" \in DOMAIN evaluation
    /\ parseIsoDate(evaluation.date) # NoDate
    /\ parseIsoDate(evaluation.date) >= evaluation.today
    /\ getDay(parseIsoDate(evaluation.date)) \in ClosedDaySet(evaluation.closedDaysRaw)
RejectedAsClosedDay(e) ==
    /\ e.returned
    /\ "is_closed_day" \in DOMAIN e.result
    /\ e.result.is_closed_day = TRUE
    /\ e.result[IF e.name = "checkAvailability" THEN "available" ELSE "success"] = FALSE

\* C29: when the requested date is not in the past and its weekday is in the
\* tenant's normalized closed-day set (today included), every step of
\* checkAvailability and of createReservation returns a rejection flagged
\* is_closed_day = true, whatever the capacity, the party size and the
\* reservations are; no statement is sent to the reservations table and the
\* table stays as it is.
C29_ClosedDayRejectedWithoutQuery ==
    [][ClosedDayRequested =>
          /\ RejectedAsClosedDay(evaluation')
          /\ evaluation'.queries = <<>>
          /\ supabase' = supabase]_vars

\* checkAvailability has rejected a table for one today, a Wednesday, the only
\* closed day, in an empty restaurant of 20 seats
C29_Witness ==
    /\ ClosedDayRequested
    /\ RejectedAsClosedDay(evaluation)
    /\ evaluation.name = "checkAvailability"
    /\ parseIsoDate(evaluation.date) = evaluation.today
    /\ ClosedDaySet(evaluation.closedDaysRaw) = {getDay(evaluation.today)}
    /\ evaluation.partySize = 1
    /\ evaluation.maxCapacity = 20
    /\ supabase.reservations = <<>>
    /\ evaluation.result.other_closed_days = <<>>

(***************************************************************************)
(* C30                                                                     *)
(***************************************************************************)
CreateReservationOnly == {"create_reservation"}
ReportedFailureOnly == {"failure"}

\* the step in which createReservation returns { success: false, error } to
\* handleToolCalls because the datastore reported an error
ReservationRefusedNow == ToolReturns(CreateReservationOnly, ReportedFailureOnly)

FailureResult ==
    [role |-> "tool", content |-> "failure", tools |-> <<"create_reservation">>]

LastMessage(list) == list[Len(list)]

\* the turn awaits the model's answer to the conversation that ends with the
\* failure result
AnswerToFailureAwaited ==
    /\ TheTurn(tasks).pc = "llm"
    /\ messages.list # <<>>
    /\ LastMessage(messages.list) = FailureResult

\* the model's answer with a text is pushed by the turn
TextAnswered ==
    /\ TheTurn(tasks') # TheTurn(tasks)
    /\ Len(messages.list') = Len(messages.list) + 1
    /\ LastMessage(messages.list').role = "assistant"
    /\ LastMessage(messages.list').content # NoContent

\* C30: when the datastore reports an error during create_reservation, the
\* step that returns the failure leaves the reservations table as it was,
\* appends the failure as a tool result to the conversation, and leaves the
\* activity of the call, the handoff state, the hangup flags, the hangup timer
\* and the numbers of transfer and hangup requests as they were; in an active
\* call without handoff in progress the same turn asks the model for its
\* reply in that step, with a free choice of tool, and when the model answers
\* with a text or the request fails, the same step hands the text or the
\* apology to speak, whose synthesis is awaited while the call is active.
C30_ReservationErrorIsAnswered ==
    [][/\ ReservationRefusedNow =>
              /\ supabase' = supabase
              /\ messages.list' = Append(messages.list, FailureResult)
              /\ call.callActive' = call.callActive
              /\ handoffState' = handoffState
              /\ callEndState' = callEndState
              /\ timers' = timers
              /\ obs.transferRequests' = obs.transferRequests
              /\ obs.hangupRequests' = obs.hangupRequests
              /\ obs.handoffStarts' = obs.handoffStarts
              /\ TheTurn(tasks').text = TheTurn(tasks).text
              /\ (Len(TheTurn(tasks).tools) = 1 /\ ~handoffState.inProgress)
                     => /\ TheTurn(tasks').pc = "llm"
                        /\ TheTurn(tasks').toolChoice = "auto"
                        /\ ~TheTurn(tasks').forced
       /\ (AnswerToFailureAwaited /\ call.callActive /\ call.streamSid
              /\ (TextAnswered \/ TurnFailedNow))
              => /\ TheTurn(tasks').pc = "tts"
                 /\ TheTurn(tasks').text = TheTurn(tasks).text]_vars

\* the insert of a reservation was refused, no row exists, and the reply of
\* the model to the failure is being synthesised in the active call, in which
\* no handoff was started and no hangup is scheduled
C30_Witness ==
    /\ call.callActive /\ call.streamSid
    /\ supabase.reservations = <<>>
    /\ obs.handoffStarts = 0 /\ ~handoffState.inProgress
    /\ ~callEndState.hangupScheduled /\ ~timers.hangupTimer
    /\ Len(messages.list) >= 2
    /\ messages.list[Len(messages.list) - 1] = FailureResult
    /\ LastMessage(messages.list) = [role |-> "assistant", content |-> "clean", tools |-> <<>>]
    /\ TheTurn(tasks).pc = "tts"
    /\ ~TheTurn(tasks).failed

(***************************************************************************)
(* C31                                                                     *)
(***************************************************************************)
\* the start of a call that asks for the enrollment of the tenant
EnrolledNow ==
    /\ evaluation' # evaluation
    /\ evaluation'.returned
    /\ evaluation'.resultPercent = evaluation.percent
    /\ evaluation'.percent = evaluation.percent

\* C31: the enrollment of a tenant depends on its id and the rollout
\* percentage only: a call that starts at the percentage of the call before
\* gets the same answer, a call that starts at a higher percentage than a call
\* that was enrolled is enrolled as well (and one at a lower percentage than a
\* call that was not enrolled is not), no call is enrolled at 0 and every call
\* of a tenant with an id is enrolled at 100.
C31_EnrollmentStableAndMonotone ==
    [][EnrolledNow =>
          /\ (evaluation.returned /\ evaluation.resultPercent = evaluation.percent)
                 => evaluation'.result = evaluation.result
          /\ (evaluation.returned /\ evaluation.resultPercent <= evaluation.percent
                 /\ evaluation.result) => evaluation'.result
          /\ (evaluation.returned /\ evaluation.resultPercent >= evaluation.percent
                 /\ ~evaluation.result) => ~evaluation'.result
          /\ evaluation.percent = 0 => ~evaluation'.result
          /\ (evaluation.percent = 100 /\ evaluation.practiceId # <<>>)
                 => evaluation'.result]_vars

\* a call of a tenant was enrolled at a percentage between 0 and 50, and
\* the percentage has been raised by two since
C31_Witness ==
    /\ evaluation.fn = "shouldEnablePerfV2ForPractice"
    /\ evaluation.returned /\ evaluation.result
    /\ evaluation.resultPercent > 1 /\ evaluation.resultPercent < 50
    /\ evaluation.percent = evaluation.resultPercent + 2

(***************************************************************************)
(* C32                                                                     *)
(***************************************************************************)
\* the guests of the reservations of the table that are seated at the instant t
GuestsSeatedAt(table, t) ==
    LET Sum[k \in 0..Len(table)] ==
            IF k = 0 THEN 0
            ELSE IF Seated(table[k], t) THEN Sum[k - 1] + table[k].party_size
            ELSE Sum[k - 1]
    IN Sum[Len(table)]

\* the instants at which a reservation of the table starts: the occupancy
\* rises nowhere else
StartInstants(table) == {parseTimeToMinutes(table[k].time) : k \in 1..Len(table)}

\* C32: whatever tool calls the concurrent calls of the tenant have made and
\* however they interleaved, the reservations persisted for the day never
\* seat more guests at any instant than the capacity of the tenant.
C32_CapacityNeverExceeded ==
    evaluation.fn = "booking" =>
        \A t \in StartInstants(supabase.reservations) :
            GuestsSeatedAt(supabase.reservations, t) <= evaluation.maxCapacity

(***************************************************************************)
(* C33                                                                     *)
(***************************************************************************)
\* C33: whatever the model replies, the handling of a Pending Turn comes to
\* its end: the turn that is being resolved is eventually resolved.
C33_EveryTurnTerminates == (TurnTasks # {}) ~> (TurnTasks = {})

(***************************************************************************)
(* C34                                                                     *)
(***************************************************************************)
\* the assistant messages of the list that carry tool calls
CallIndexes(list) ==
    {k \in 1..Len(list) : list[k].role = "assistant" /\ list[k].tools # <<>>}

\* the messages after message k up to the next assistant message with tool calls
MessagesAfterCall(list, k) ==
    SubSeq(list, k + 1,
           IF \E j \in CallIndexes(list) : j > k
           THEN (CHOOSE j \in CallIndexes(list) :
                    j > k /\ \A h \in CallIndexes(list) : h > k => j <= h) - 1
           ELSE Len(list))

\* the tools whose results the messages hold, in their order
ToolsAnsweredIn(msgs) ==
    LET isResult(m) == m.role = "tool"
        results == SelectSeq(msgs, isResult)
    IN [n \in 1..Len(results) |-> results[n].tools[1]]

\* C34: while a request to the language model is in flight, every assistant
\* message of the conversation that carries tool calls is followed, before
\* the next such message, by the results of exactly its tool calls, in call order.
C34_ToolCallsAnsweredBeforeRequest ==
    NoneAwaits("llm") \/
        \A k \in CallIndexes(messages.list) :
            ToolsAnsweredIn(MessagesAfterCall(messages.list, k)) = messages.list[k].tools

(***************************************************************************)
(* C35                                                                     *)
(***************************************************************************)
\* the request of the turn is answered in this step, after the session has ended
AnsweredAfterEnd ==
    /\ ~call.callActive
    /\ TheTurn(tasks).pc = "llm"
    /\ TheTurn(tasks') # TheTurn(tasks)

\* C35: when the reply to a request of a turn arrives after the session has
\* become inactive, the turn executes none of the tool calls of the reply and
\* issues no further request to the language model, and no reservation is
\* persisted for the session from then on.
C35_ReplyAfterEndIsDiscarded ==
    [][/\ AnsweredAfterEnd =>
              /\ TheTurn(tasks').pc # "tool"
              /\ TheTurn(tasks').pc # "llm"
       /\ (~call.callActive /\ TheTurn(tasks).pc # "tool")
              => supabase'.reservations = supabase.reservations]_vars

(***************************************************************************)
(* C36                                                                     *)
(***************************************************************************)
\* The waiting turns: a caller who keeps talking and asks for a person while
\* the consumer is busy; the transfer may be refused; a model that calls the
\* availability tool at most MaxLlmCalls - 1 times in a row.
PendingFragments == {<<"hallo">>, <<"mitarbeiter">>}

NextPending ==
    \/ Start({TRUE}, {TRUE}, {PhoneB}, {Null})
    \/ AccessDone({PhoneA})
    \/ LlmDone({"clean"}, AvailabilityTools)
    \/ ToolDone
    \/ TransferDone
    \/ FinalTranscript(PendingFragments, MaxQueueTranscripts)
    \/ SessionEvents({FALSE})

SpecPending == Init /\ [][NextPending]_vars

\* every awaited collaborator of a turn returns: the completion request, the
\* tool, the synthesis and the transfer request settle or fail.  Weak fairness
\* of LlmDone, ToolDone, TtsDone and TransferDone, each written with the
\* condition under which the action is enabled.
SpecPendingFair ==
    /\ SpecPending
    /\ []<>NoneAwaits("llm") /\ []<>NoneAwaits("tool")
    /\ []<>NoneAwaits("tts") /\ []<>NoneAwaits("transfer")

\* a turn waits while the call is active and no handoff is in progress
TurnWaits == pendingTurns # <<>> /\ call.callActive /\ ~handoffState.inProgress

\* the step hands the head of the queue to handleUserTurn
HeadConsumed ==
    /\ pendingTurns # <<>> /\ pendingTurns' = Tail(pendingTurns)
    /\ call.callActive
    /\ TheTurn(tasks').text = Head(pendingTurns).text
    /\ TheTurn(tasks').pc # "none"

\* the step appends one turn, making room at the head when the queue is full
TurnQueued ==
    /\ pendingTurns' # <<>>
    /\ LET kept == IF Len(pendingTurns) >= TURN_QUEUE_MAX_SIZE
                   THEN Tail(pendingTurns) ELSE pendingTurns
       IN SubSeq(pendingTurns', 1, Len(pendingTurns') - 1) = kept

\* the step empties the queue at stop or close
QueueCleared == pendingTurns' = <<>> /\ ~call.callActive'

ConfirmationFragments ==
    {<<"hallo">>, <<"ja">>, <<"nein">>, <<"nein", SP, "ja">>, <<"mitarbeiter">>}

NextConfirmation ==
    \/ Start({TRUE}, {TRUE}, {PhoneB}, {Null})
    \/ AccessDone({PhoneA})
    \/ LlmDone({"marked"}, AvailabilityTools)
    \/ ToolDone
    \/ TransferDone
    \/ FinalTranscript(ConfirmationFragments, MaxTranscripts)
    \/ SessionEvents({FALSE})

SpecConfirmation == Init /\ [][NextConfirmation]_vars

\* the step routes a turn of an active call while the machine awaits the
\* confirmation
ConfirmationRouted ==
    /\ TurnRouted
    /\ handoffState.awaitingConfirmation
    /\ call.callActive

\* the step leaves the machine in Normal and starts no handoff
ReturnsToNormal ==
    /\ ~handoffState.awaitingConfirmation'
    /\ handoffState.consecutiveMisunderstandings' = 0
    /\ obs.handoffStarts' = obs.handoffStarts

\* C37 as stated: in AwaitingConfirmation every turn isNegativeResponse accepts
\* returns the machine to Normal without a handoff, and only a turn that is
\* affirmative and not negative starts the handoff.
C37_Original ==
    [][ConfirmationRouted =>
           LET text == TheTurn(tasks').text
           IN /\ isNegativeResponse(text) => ReturnsToNormal
              /\ obs.handoffStarts' # obs.handoffStarts
                     => isAffirmativeResponse(text) /\ ~isNegativeResponse(text)]_vars

\* C37: in AwaitingConfirmation every turn that isNegativeResponse accepts and
\* isAffirmativeResponse does not returns the machine to Normal (awaiting
\* false, counter 0) without a handoff, and only a turn that is affirmative
\* starts the handoff.
C37_DeclineReturnsToNormal ==
    [][ConfirmationRouted =>
           LET text == TheTurn(tasks').text
           IN /\ (isNegativeResponse(text) /\ ~isAffirmativeResponse(text)) => ReturnsToNormal
              /\ obs.handoffStarts' # obs.handoffStarts
                     => isAffirmativeResponse(text)]_vars

\* the caller has declined the offer: the machine is back in Normal and the
\* decline text is being synthesised
C37_Witness ==
    /\ obs.lastRoute = "confirm_no"
    /\ ~handoffState.awaitingConfirmation /\ ~handoffState.inProgress
    /\ \E i \in TurnTasks : tasks[i].pc = "tts" /\ tasks[i].text = <<"nein">>

(***************************************************************************)
(* C38                                                                     *)
(***************************************************************************)
\* the step routes a turn that asks for a person, in an active call without
\* a handoff in progress
ExplicitRequestRouted ==
    /\ TurnRouted
    /\ call.callActive /\ ~handoffState.inProgress
    /\ isExplicitHandoffRequest(TheTurn(tasks').text)

\* C38: a user turn that is an explicit handoff request starts the handoff in
\* the step that routes it, in Normal and in AwaitingConfirmation alike, and
\* no request to the language model is issued for that turn.
C38_ExplicitRequestTransfers ==
    [][ExplicitRequestRouted =>
           /\ handoffState.inProgress'
           /\ obs.handoffStarts' = obs.handoffStarts + 1
           /\ TheTurn(tasks').llmCalls = 0
           /\ TheTurn(tasks').pc # "llm"]_vars

(***************************************************************************)
(* C39                                                                     *)
(***************************************************************************)
\* an error of a connection that had opened: the Error handler runs and the
\* socket is gone
DgErrorWhenOpen ==
    \E k \in 1..Len(dg.conns), isHandshakeError \in BOOLEAN :
        /\ dg.conns[k].state = "open"
        /\ Apply(dgErrorHandler(St, k, isHandshakeError))

\* The channel: a recognition connection that fails before or after it opened
\* or is closed by the far end, in both pipeline modes.
NextChannel ==
    \/ Start({TRUE}, BOOLEAN, {PhoneB}, {Null})
    \/ AccessDone({PhoneA})
    \/ RecDone
    \/ LlmDone({"clean"}, {<<>>})
    \/ TransferDone
    \/ FinalTranscript(BridgeFragments, 1)
    \/ DgClose
    \/ DgErrorWhenOpen
    \/ SessionEvents(BOOLEAN)

SpecChannel == Init /\ [][NextChannel]_vars

\* the session has a recognition connection that is open or connecting
ChannelUp == \E k \in 1..Len(dg.conns) : dg.conns[k].state \in {"open", "connecting"}

\* C39: once the recognition channel of a call had opened, an error or a
\* disconnect is answered by a reconnect or a handoff: while the call is active
\* and no handoff is in progress the session has an open or connecting
\* recognition channel.
C39_ChannelLossIsAnswered ==
    (call.callActive /\ ~handoffState.inProgress /\ dg.deepgramConnected) => ChannelUp

(***************************************************************************)
(* C40                                                                     *)
(***************************************************************************)
\* the step adds a fragment to the first-turn buffer and keeps the buffer
FragmentCoalesced ==
    /\ firstTurnBuffer # Null /\ firstTurnBuffer' # Null
    /\ Len(firstTurnBuffer'.parts) = Len(firstTurnBuffer.parts) + 1

\* a fragment arrives for the buffer of an active call once the deadline is
\* reached
FragmentAtDeadline ==
    /\ firstTurnBuffer # Null
    /\ obs.transcripts' = obs.transcripts + 1
    /\ call.callActive'
    /\ firstTurnBuffer.elapsed >= INITIAL_TURN_MAX_WAIT_MS

\* C40: the first-turn buffer never outlives INITIAL_TURN_MAX_WAIT_MS since its
\* first fragment: its timer is never due later, a fragment that arrives at the
\* deadline flushes it at once, every further fragment before it re-arms the
\* timer to min(INITIAL_TURN_COALESCE_MS, time left to the deadline) from the
\* arrival, and exactly one timer of the buffer is pending while it exists.
C40_FirstTurnFlushedByDeadline ==
    /\ [](firstTurnBuffer # Null =>
            /\ firstTurnBuffer.timerDue <= INITIAL_TURN_MAX_WAIT_MS
            /\ firstTurnBuffer.elapsed <= INITIAL_TURN_MAX_WAIT_MS
            /\ firstTurnBuffer.timers = 1)
    /\ [][/\ FragmentCoalesced =>
                /\ firstTurnBuffer'.elapsed = firstTurnBuffer.elapsed
                /\ firstTurnBuffer'.timerDue =
                       firstTurnBuffer.elapsed
                       + Min(INITIAL_TURN_COALESCE_MS,
                             INITIAL_TURN_MAX_WAIT_MS - firstTurnBuffer.elapsed)
          /\ FragmentAtDeadline => firstTurnBuffer' = Null /\ FirstTurnFlushed]_vars

\* the third fragment arrived INITIAL_TURN_FIRST_CHUNK_WAIT_MS after the first
\* and the timer is set to the deadline, less than INITIAL_TURN_COALESCE_MS away
C40_Witness ==
    /\ firstTurnBuffer # Null
    /\ Len(firstTurnBuffer.parts) = 3
    /\ firstTurnBuffer.elapsed = INITIAL_TURN_FIRST_CHUNK_WAIT_MS
    /\ firstTurnBuffer.timerDue = INITIAL_TURN_MAX_WAIT_MS

=============================================================================
